---- MODULE Spec2Model ----
(***************************************************************************)
(* A model of the alice interpreter: the statement/effect protocol         *)
(* (statement.rs), the stack type checker (type_check.rs, object.rs), the  *)
(* executor (statement.rs, runtime.rs) and the two drivers of main.rs      *)
(* (batch and interactive).                                                *)
(*                                                                         *)
(* Statements are records of one shape (op, ident, ty, haslit, val, args,  *)
(* ret, body, els); values are records of one shape (k, n, s, fn).  A      *)
(* Float payload n counts halves (n = 3 is 1.5); a String payload s is a   *)
(* sequence of characters.                                                 *)
(***************************************************************************)
EXTENDS Integers, Sequences, FiniteSets, TLC

VARIABLES
    src,         \* AliceLexer.src, the program text, one character per element (empty where the text is not followed)
    mode,        \* "batch" or "interactive" (args.path.is_some() in main); "statement": a Statement value on its own
    pc,          \* position of the driver
    tokens,      \* the token stream of the program / current line
    statements,  \* the parsed statement list of the program / current line
    ip,          \* number of top-level statements of `statements` already executed
    stack,       \* AliceStack.stack, bottom first
    table,       \* AliceTable.vars
    type_stack,  \* the TypeStack of the checker (batch: local to check)
    outcome,     \* result of the last parse(): "none", "lex_error", "parse_error", "parse_panic", "fun_error", "type_error", "excess", "accepted"
    excess,      \* the n of "n excess values on the stack!"
    code,        \* the process exit status once the process has ended
    ttrace,      \* history: type_stack.vals before statement 1 and after every checked top-level statement
    fault,       \* history: what the executor met ("none", "underflow", "mismatch", "unbound", "arith")
    executed,    \* history: number of statements executed since the last Tokenize
    nlines,      \* number of lines read so far (interactive)
    line0,       \* history: stack, table and type_stack when the current line was read
    pattern      \* the StackPattern at hand where a pattern is followed on its own (empty elsewhere)

vars == <<src, mode, pc, tokens, statements, ip, stack, table, type_stack, outcome,
          excess, code, ttrace, fault, executed, nlines, line0, pattern>>

-----------------------------------------------------------------------------
(* type_check.rs: the type bitmasks *)

STRING_BIT == 1
BOOL == 2
INT == 4
FLOAT == 8
OBJECT == 16
ANY == 31

\* the u32 `&` of StackPattern::type_check
RECURSIVE BitAnd(_, _)
BitAnd(a, b) ==
    IF a = 0 \/ b = 0 THEN 0
    ELSE (IF a % 2 = 1 /\ b % 2 = 1 THEN 1 ELSE 0) + 2 * BitAnd(a \div 2, b \div 2)

\* Once({e(r) : r \in {v}}) is LET r == v IN e(r), with v computed a single time
Once(S) == CHOOSE y \in S : TRUE

EmptyMap == [x \in {} |-> 0]

Put(m, k, v) == [x \in (DOMAIN m) \cup {k} |-> IF x = k THEN v ELSE m[x]]

Take(m, k) == [x \in (DOMAIN m) \ {k} |-> m[x]]

\* TypeStack::new
TypeStack_new == [vals |-> <<>>, vars |-> EmptyMap, funs |-> EmptyMap]

Top(q) == q[Len(q)]

Pop(q) == SubSeq(q, 1, Len(q) - 1)

\* Vec::remove(len - 1 - offset)
RemoveAt(q, offset) ==
    LET i == Len(q) - offset
    IN SubSeq(q, 1, i - 1) \o SubSeq(q, i + 1, Len(q))

-----------------------------------------------------------------------------
(* runtime.rs / object.rs: values *)

NoFun == [args |-> <<>>, ret |-> 0, body |-> <<>>]

NoVal == [k |-> "None", n |-> 0, s |-> <<>>, fn |-> NoFun]

IntVal(i) == [k |-> "Int", n |-> i, s |-> <<>>, fn |-> NoFun]

FloatVal(h) == [k |-> "Float", n |-> h, s |-> <<>>, fn |-> NoFun]

BoolVal(b) == [k |-> "Bool", n |-> IF b THEN 1 ELSE 0, s |-> <<>>, fn |-> NoFun]

StringVal(str) == [k |-> "String", n |-> 0, s |-> str, fn |-> NoFun]

\* Object(Some(o)), kept as o.type_hash, the type tag of the object
ObjectVal(tag) == [k |-> "Object", n |-> tag, s |-> <<>>, fn |-> NoFun]

FunctionVal(f) == [k |-> "Function", n |-> 0, s |-> <<>>, fn |-> f]

\* AliceFun::new
AliceFun(args, ret, body) == [args |-> args, ret |-> ret, body |-> body]

\* what type_bit answers for a Function: it panics, no bitmask
NoBit == 0 - 1

\* type_check::type_bit
type_bit(val) ==
    CASE val.k = "String" -> STRING_BIT
      [] val.k = "Bool" -> BOOL
      [] val.k = "Int" -> INT
      [] val.k = "Float" -> FLOAT
      [] val.k = "Object" -> val.n
      [] OTHER -> NoBit

\* the per-slot run-time types of an operand stack, bottom first
TypesOf(st) == [i \in 1..Len(st) |-> type_bit(st[i])]

-----------------------------------------------------------------------------
(* statement.rs: the statement shapes *)

St(op) == [op |-> op, ident |-> "", ty |-> 0, haslit |-> FALSE, val |-> NoVal,
           args |-> <<>>, ret |-> 0, body |-> <<>>, els |-> <<>>]

PushStatement(v) == [St("push") EXCEPT !.val = v]

LetStatement(id, ty) == [St("let") EXCEPT !.ident = id, !.ty = ty]

LetLiteralStatement(id, ty, v) ==
    [St("let") EXCEPT !.ident = id, !.ty = ty, !.haslit = TRUE, !.val = v]

PushFromTableStatement(id) == [St("ref") EXCEPT !.ident = id]

FunStatement(id, args, ret, body) ==
    [St("fun") EXCEPT !.ident = id, !.args = args, !.ret = ret, !.body = body]

ExecuteFunStatement(id) == [St("call") EXCEPT !.ident = id]

IfStatement(body) == [St("if") EXCEPT !.body = body]

IfElseStatement(body, els) == [St("ifelse") EXCEPT !.body = body, !.els = els]

ArithOps == {"add", "sub", "mul", "div", "pow", "mod"}

CmpOps == {"gt", "ge", "lt", "le"}

\* Statement::in_pattern
in_pattern(s) ==
    CASE s.op \in {"println", "print", "drop"} -> <<ANY>>
      [] s.op = "exit" -> <<INT>>
      [] s.op = "let" -> <<s.ty>>
      [] s.op \in {"if", "ifelse"} -> <<BOOL>>
      [] OTHER -> <<>>

\* Statement::out_pattern
out_pattern(s) ==
    CASE s.op = "push" -> <<type_bit(s.val)>>
      [] OTHER -> <<>>

-----------------------------------------------------------------------------
(* type_check.rs / statement.rs / object.rs: the type checker.  Every check *)
(* answers [ok, ts]: the Result and the TypeStack as the call left it.      *)

Ok(ts) == [ok |-> TRUE, ts |-> ts]

Err(ts) == [ok |-> FALSE, ts |-> ts]

\* a type_check that asks for the depth of the pattern only
StackPattern_type_check_depth_only(p, ts) ==
    IF Len(ts.vals) >= Len(p)
    THEN Ok([ts EXCEPT !.vals = SubSeq(ts.vals, 1, Len(ts.vals) - Len(p))])
    ELSE Err([ts EXCEPT !.vals = <<>>])

\* StackPattern::type_check: one pop per slot, first slot against the head
RECURSIVE type_check_from(_, _, _)
type_check_from(p, i, ts) ==
    IF i > Len(p) THEN Ok(ts)
    ELSE IF ts.vals = <<>> THEN Err(ts)
    ELSE LET actual == Top(ts.vals)
             popped == [ts EXCEPT !.vals = Pop(ts.vals)]
         IN IF BitAnd(actual, p[i]) # actual THEN Err(popped)
            ELSE type_check_from(p, i + 1, popped)

StackPattern_type_check(p, ts) == type_check_from(p, 1, ts)

\* StackPattern::push
StackPattern_push(p, ts) == [ts EXCEPT !.vals = ts.vals \o p]

\* TypeStack::required_size
required_size(ts, size) == Len(ts.vals) >= size

\* the match with the (STRING, STRING) arm of AddStatement in every statement
ArithType_string_everywhere(op, a, b) ==
    CASE a = INT /\ b = INT -> INT
      [] a = FLOAT /\ b = FLOAT -> FLOAT
      [] a = FLOAT /\ b = INT -> FLOAT
      [] a = INT /\ b = FLOAT -> IF op = "pow" THEN 0 ELSE FLOAT
      [] a = STRING_BIT /\ b = STRING_BIT -> STRING_BIT
      [] OTHER -> 0

\* the match with the (INT, FLOAT) arm of AddStatement in every statement
ArithType_int_float_everywhere(op, a, b) ==
    CASE a = INT /\ b = INT -> INT
      [] a = FLOAT /\ b = FLOAT -> FLOAT
      [] a = FLOAT /\ b = INT -> FLOAT
      [] a = INT /\ b = FLOAT -> FLOAT
      [] a = STRING_BIT /\ b = STRING_BIT -> IF op = "add" THEN STRING_BIT ELSE 0
      [] OTHER -> 0

\* the match of AddStatement .. ModStatement::custom_type_check; 0 is the `_` arm
ArithType(op, a, b) ==
    CASE a = INT /\ b = INT -> INT
      [] a = FLOAT /\ b = FLOAT -> FLOAT
      [] a = FLOAT /\ b = INT -> FLOAT
      [] a = INT /\ b = FLOAT -> IF op = "pow" THEN 0 ELSE FLOAT
      [] a = STRING_BIT /\ b = STRING_BIT -> IF op = "add" THEN STRING_BIT ELSE 0
      [] OTHER -> 0

\* AddStatement .. ModStatement::custom_type_check
arith_type_check(op, ts) ==
    IF ~required_size(ts, 2) THEN Err(ts)
    ELSE LET b == Top(ts.vals)
             a == Top(Pop(ts.vals))
             popped == [ts EXCEPT !.vals = Pop(Pop(ts.vals))]
             r == ArithType(op, a, b)
         IN IF r = 0 THEN Err(popped)
            ELSE Ok([popped EXCEPT !.vals = Append(popped.vals, r)])

\* cmp_statement!::custom_type_check: !(a == FLOAT || a == INT && a == b)
cmp_type_check(ts) ==
    IF ~required_size(ts, 2) THEN Err(ts)
    ELSE LET a == Top(ts.vals)
             b == Top(Pop(ts.vals))
             popped == [ts EXCEPT !.vals = Pop(Pop(ts.vals))]
         IN IF ~(a = FLOAT \/ (a = INT /\ a = b)) THEN Err(popped)
            ELSE Ok([popped EXCEPT !.vals = Append(popped.vals, BOOL)])

\* EqsStatement::custom_type_check
eqs_type_check(ts) ==
    IF ~required_size(ts, 2) THEN Err(ts)
    ELSE LET a == Top(ts.vals)
             b == Top(Pop(ts.vals))
             popped == [ts EXCEPT !.vals = Pop(Pop(ts.vals))]
         IN IF a # b THEN Err(popped)
            ELSE Ok([popped EXCEPT !.vals = Append(popped.vals, BOOL)])

\* the shufflers' custom_type_check with rot removing at len - 2 as swap does
shuffle_type_check_rot_second(op, ts) ==
    LET v == ts.vals
    IN CASE op = "swap" ->
                IF ~required_size(ts, 2) THEN Err(ts)
                ELSE Ok([ts EXCEPT !.vals = Append(RemoveAt(v, 1), v[Len(v) - 1])])
         [] op = "dup" ->
                IF ~required_size(ts, 1) THEN Err(ts)
                ELSE Ok([ts EXCEPT !.vals = Append(v, v[Len(v)])])
         [] op = "over" ->
                IF ~required_size(ts, 2) THEN Err(ts)
                ELSE Ok([ts EXCEPT !.vals = Append(v, v[Len(v) - 1])])
         [] op = "rot" ->
                IF ~required_size(ts, 3) THEN Err(ts)
                ELSE Ok([ts EXCEPT !.vals = Append(RemoveAt(v, 1), v[Len(v) - 1])])

\* SwapStatement / DupStatement / OverStatement / RotStatement::custom_type_check
shuffle_type_check(op, ts) ==
    LET v == ts.vals
    IN CASE op = "swap" ->
                IF ~required_size(ts, 2) THEN Err(ts)
                ELSE Ok([ts EXCEPT !.vals = Append(RemoveAt(v, 1), v[Len(v) - 1])])
         [] op = "dup" ->
                IF ~required_size(ts, 1) THEN Err(ts)
                ELSE Ok([ts EXCEPT !.vals = Append(v, v[Len(v)])])
         [] op = "over" ->
                IF ~required_size(ts, 2) THEN Err(ts)
                ELSE Ok([ts EXCEPT !.vals = Append(v, v[Len(v) - 1])])
         [] op = "rot" ->
                IF ~required_size(ts, 3) THEN Err(ts)
                ELSE Ok([ts EXCEPT !.vals = Append(RemoveAt(v, 2), v[Len(v) - 2])])

\* PushFromTableStatement::custom_type_check
ref_type_check(s, ts) ==
    IF s.ident \in DOMAIN ts.vars
    THEN Ok([ts EXCEPT !.vals = Append(ts.vals, ts.vars[s.ident])])
    ELSE Err(ts)

\* ExecuteFunStatement::custom_type_check without its `if sig.1 != 0`
call_type_check_push_always(s, ts) ==
    IF s.ident \in DOMAIN ts.funs
    THEN LET sig == ts.funs[s.ident]
         IN Once({IF ~r.ok THEN r
                  ELSE Ok([r.ts EXCEPT !.vals = Append(r.ts.vals, sig.ret)]) :
                  r \in {StackPattern_type_check(sig.args, ts)}})
    ELSE Err(ts)

\* ExecuteFunStatement::custom_type_check
call_type_check(s, ts) ==
    IF s.ident \in DOMAIN ts.funs
    THEN LET sig == ts.funs[s.ident]
         IN Once({IF ~r.ok THEN r
                  ELSE IF sig.ret # 0
                       THEN Ok([r.ts EXCEPT !.vals = Append(r.ts.vals, sig.ret)])
                       ELSE Ok(r.ts) :
                  r \in {StackPattern_type_check(sig.args, ts)}})
    ELSE Err(ts)

RECURSIVE custom_type_check(_, _), check_statement(_, _), check_rc(_, _)

\* IfStatement::custom_type_check
if_type_check(s, ts) ==
    LET stack_size_0 == Len(ts.vals)
    IN Once({IF ~r.ok THEN r
             ELSE IF Len(r.ts.vals) # stack_size_0 THEN Err(r.ts)
             ELSE Ok(r.ts) :
             r \in {check_rc(ts, s.body)}})

\* IfElseStatement::custom_type_check, with PartialEq for TypeStack (vals only)
ifelse_type_check(s, ts) ==
    LET stack_clone == ts
    IN Once({IF ~r1.ok THEN r1
             ELSE Once({IF ~r2.ok THEN Err(r1.ts)
                        ELSE IF r2.ts.vals = r1.ts.vals THEN Ok(r1.ts)
                        ELSE Err(r1.ts) :
                        r2 \in {check_rc(stack_clone, s.els)}}) :
             r1 \in {check_rc(ts, s.body)}})

\* Statement::custom_type_check, by statement shape
custom_type_check(s, ts) ==
    CASE s.op \in ArithOps -> arith_type_check(s.op, ts)
      [] s.op \in CmpOps -> cmp_type_check(ts)
      [] s.op = "eqs" -> eqs_type_check(ts)
      [] s.op \in {"swap", "dup", "over", "rot"} -> shuffle_type_check(s.op, ts)
      [] s.op = "clear" -> Ok([ts EXCEPT !.vals = <<>>])
      [] s.op = "let" -> Ok([ts EXCEPT !.vars = Put(ts.vars, s.ident, s.ty)])
      [] s.op = "ref" -> ref_type_check(s, ts)
      [] s.op = "fun" ->
            Ok([ts EXCEPT !.funs = Put(ts.funs, s.ident, [args |-> s.args, ret |-> s.ret])])
      [] s.op = "call" -> call_type_check(s, ts)
      [] s.op = "if" -> if_type_check(s, ts)
      [] s.op = "ifelse" -> ifelse_type_check(s, ts)
      [] OTHER -> Ok(ts)

\* the body of the checkers' loops: in_pattern, custom_type_check, out_pattern
check_statement(s, ts) ==
    Once({IF ~r1.ok THEN r1
          ELSE Once({IF ~r2.ok THEN r2
                     ELSE Ok(StackPattern_push(out_pattern(s), r2.ts)) :
                     r2 \in {custom_type_check(s, r1.ts)}}) :
          r1 \in {StackPattern_type_check(in_pattern(s), ts)}})

\* type_check::check_rc
check_rc(ts, stmts) ==
    IF stmts = <<>> THEN Ok(ts)
    ELSE Once({IF ~r.ok THEN r ELSE check_rc(r.ts, Tail(stmts)) :
               r \in {check_statement(Head(stmts), ts)}})

\* type_check::check_interactive
check_interactive(ts, stmts) == check_rc(ts, stmts)

\* check_fun, called by AliceFun::type_check: the loop of check_rc over the body
check_fun(ts, stmts) == check_rc(ts, stmts)

\* AliceFun::type_check without its comparison of the one value left with the
\* declared return type
AliceFun_type_check_any_return(f) ==
    LET seeded == StackPattern_push(f.args, TypeStack_new)
    IN Once({IF ~r.ok THEN FALSE
             ELSE IF f.ret = 0 /\ Len(r.ts.vals) = 0 THEN TRUE
             ELSE IF Len(r.ts.vals) # 1 THEN FALSE
             ELSE TRUE :
             r \in {check_fun(seeded, f.body)}})

\* AliceFun::type_check; answers ok only
AliceFun_type_check(f) ==
    LET seeded == StackPattern_push(f.args, TypeStack_new)
    IN Once({IF ~r.ok THEN FALSE
             ELSE IF f.ret = 0 /\ Len(r.ts.vals) = 0 THEN TRUE
             ELSE IF Len(r.ts.vals) # 1 THEN FALSE
             ELSE IF Top(r.ts.vals) # f.ret THEN FALSE
             ELSE TRUE :
             r \in {check_fun(seeded, f.body)}})

\* type_check::check without its `stack.vals.is_empty()` test
check_any_depth(stmts) ==
    Once({IF ~r.ok THEN [ok |-> FALSE, n |-> 0] ELSE [ok |-> TRUE, n |-> 0] :
          r \in {check_rc(TypeStack_new, stmts)}})

\* type_check::check: [ok, n]; n > 0 is "n excess values on the stack!"
check(stmts) ==
    Once({IF ~r.ok THEN [ok |-> FALSE, n |-> 0]
          ELSE IF r.ts.vals = <<>> THEN [ok |-> TRUE, n |-> 0]
          ELSE [ok |-> FALSE, n |-> Len(r.ts.vals)] :
          r \in {check_rc(TypeStack_new, stmts)}})

\* the type stacks a checker's loop passes through: vals before the first
\* statement and after every statement that checks
RECURSIVE TypeTrace(_, _)
TypeTrace(ts, stmts) ==
    IF stmts = <<>> THEN <<ts.vals>>
    ELSE Once({IF ~r.ok THEN <<ts.vals>> ELSE <<ts.vals>> \o TypeTrace(r.ts, Tail(stmts)) :
               r \in {check_statement(Head(stmts), ts)}})

-----------------------------------------------------------------------------
(* statement.rs / runtime.rs / object.rs: the executor.  An execution state *)
(* es is [stack, table, status, code, fault]: status is "ok", "err" (the    *)
(* statement returned Err), "panic" (the process aborted) or "exit"         *)
(* (process::exit(code)); fault keeps the first thing that went wrong.      *)

Faulted(es, f) == IF es.fault = "none" THEN f ELSE es.fault

Failed(es, status, f) == [es EXCEPT !.status = status, !.fault = Faulted(es, f)]

\* i64 `/`: truncates toward zero
TruncDiv(a, b) ==
    LET q == (IF a < 0 THEN 0 - a ELSE a) \div (IF b < 0 THEN 0 - b ELSE b)
    IN IF (a < 0) = (b < 0) THEN q ELSE 0 - q

\* i64 `%`: the remainder has the sign of the dividend
TruncRem(a, b) == a - b * TruncDiv(a, b)

\* i64::pow with a u32 exponent
RECURSIVE IntPow(_, _)
IntPow(a, b) == IF b = 0 THEN 1 ELSE a * IntPow(a, b - 1)

\* the f64 of a value, in halves; `as f64` of an Int
Halves(v) == IF v.k = "Int" THEN 2 * v.n ELSE v.n

\* f64 arithmetic on halves, rounded toward zero to a half; a division or
\* remainder by 0.0 (an infinity or NaN, no panic) is kept as the payload Inf
Inf == 1000000

RECURSIVE HalvesPow(_, _)
HalvesPow(a, b) == IF b = 0 THEN 2 ELSE TruncDiv(a * HalvesPow(a, b - 1), 2)

FloatArith(op, a, b) ==
    CASE op = "add" -> a + b
      [] op = "sub" -> a - b
      [] op = "mul" -> TruncDiv(a * b, 2)
      [] op = "div" -> IF b = 0 THEN Inf ELSE TruncDiv(2 * a, b)
      [] op = "mod" -> IF b = 0 THEN Inf ELSE TruncRem(a, b)
      [] op = "pow" ->
            IF b % 2 # 0 THEN Inf
            ELSE IF b >= 0 THEN HalvesPow(a, b \div 2)
            ELSE IF HalvesPow(a, (0 - b) \div 2) = 0 THEN Inf
            ELSE TruncDiv(4, HalvesPow(a, (0 - b) \div 2))

\* the (Int, Int) arms with a `**` that answers 0 for a negative exponent
int_arith_pow_rounds(op, a, b, es) ==
    CASE op = "add" -> [es EXCEPT !.stack = Append(es.stack, IntVal(a + b))]
      [] op = "sub" -> [es EXCEPT !.stack = Append(es.stack, IntVal(a - b))]
      [] op = "mul" -> [es EXCEPT !.stack = Append(es.stack, IntVal(a * b))]
      [] op = "div" ->
            IF b = 0 THEN Failed(es, "panic", "arith")
            ELSE [es EXCEPT !.stack = Append(es.stack, IntVal(TruncDiv(a, b)))]
      [] op = "mod" ->
            IF b = 0 THEN Failed(es, "panic", "arith")
            ELSE [es EXCEPT !.stack = Append(es.stack, IntVal(TruncRem(a, b)))]
      [] op = "pow" ->
            IF b < 0 THEN [es EXCEPT !.stack = Append(es.stack, IntVal(0))]
            ELSE [es EXCEPT !.stack = Append(es.stack, IntVal(IntPow(a, b)))]

\* the (Int, Int) arms of AddStatement .. ModStatement::execute
int_arith(op, a, b, es) ==
    CASE op = "add" -> [es EXCEPT !.stack = Append(es.stack, IntVal(a + b))]
      [] op = "sub" -> [es EXCEPT !.stack = Append(es.stack, IntVal(a - b))]
      [] op = "mul" -> [es EXCEPT !.stack = Append(es.stack, IntVal(a * b))]
      [] op = "div" ->
            IF b = 0 THEN Failed(es, "panic", "arith")
            ELSE [es EXCEPT !.stack = Append(es.stack, IntVal(TruncDiv(a, b)))]
      [] op = "mod" ->
            IF b = 0 THEN Failed(es, "panic", "arith")
            ELSE [es EXCEPT !.stack = Append(es.stack, IntVal(TruncRem(a, b)))]
      [] op = "pow" ->
            IF b < 0 THEN Failed(es, "panic", "arith")
            ELSE [es EXCEPT !.stack = Append(es.stack, IntVal(IntPow(a, b)))]

\* AddStatement .. ModStatement::execute
arith_execute(op, es) ==
    IF Len(es.stack) = 0 THEN Failed(es, "err", "underflow")
    ELSE IF Len(es.stack) = 1
    THEN Failed([es EXCEPT !.stack = <<>>], "err", "underflow")
    ELSE LET b == Top(es.stack)
             a == Top(Pop(es.stack))
             popped == [es EXCEPT !.stack = Pop(Pop(es.stack))]
         IN CASE a.k = "Int" /\ b.k = "Int" -> int_arith(op, a.n, b.n, popped)
              [] a.k = "Float" /\ b.k = "Float" ->
                    [popped EXCEPT !.stack =
                        Append(popped.stack, FloatVal(FloatArith(op, a.n, b.n)))]
              [] a.k = "Float" /\ b.k = "Int" ->
                    [popped EXCEPT !.stack =
                        Append(popped.stack, FloatVal(FloatArith(op, a.n, Halves(b))))]
              [] a.k = "Int" /\ b.k = "Float" /\ op # "pow" ->
                    [popped EXCEPT !.stack =
                        Append(popped.stack, FloatVal(FloatArith(op, Halves(a), b.n)))]
              [] a.k = "String" /\ b.k = "String" /\ op = "add" ->
                    [popped EXCEPT !.stack = Append(popped.stack, StringVal(a.s \o b.s))]
              [] OTHER -> [popped EXCEPT !.fault = Faulted(popped, "mismatch")]

Compare(op, x, y) ==
    CASE op = "gt" -> x > y
      [] op = "ge" -> x >= y
      [] op = "lt" -> x < y
      [] op = "le" -> x <= y

\* cmp_statement!::execute
cmp_execute(op, es) ==
    IF Len(es.stack) = 0 THEN Failed(es, "panic", "underflow")
    ELSE IF Len(es.stack) = 1
    THEN Failed([es EXCEPT !.stack = <<>>], "panic", "underflow")
    ELSE LET b == Top(es.stack)
             a == Top(Pop(es.stack))
             popped == [es EXCEPT !.stack = Pop(Pop(es.stack))]
         IN IF (a.k = "Float" /\ b.k = "Float") \/ (a.k = "Int" /\ b.k = "Int")
            THEN [popped EXCEPT !.stack =
                    Append(popped.stack, BoolVal(Compare(op, a.n, b.n)))]
            ELSE Failed(popped, "panic", "mismatch")

\* EqsStatement::execute with the second operand read but left on the stack
eqs_execute_keep_second(es) ==
    IF Len(es.stack) = 0
    THEN [es EXCEPT !.stack = <<BoolVal(TRUE)>>, !.fault = Faulted(es, "underflow")]
    ELSE IF Len(es.stack) = 1
    THEN [es EXCEPT !.stack = <<BoolVal(FALSE)>>, !.fault = Faulted(es, "underflow")]
    ELSE LET a == Top(es.stack)
             b == Top(Pop(es.stack))
             popped == [es EXCEPT !.stack = Pop(es.stack)]
         IN IF a.k = "Function" /\ b.k = "Function"
            THEN Failed(popped, "panic", "mismatch")
            ELSE [popped EXCEPT !.stack = Append(popped.stack, BoolVal(a = b))]

\* EqsStatement::execute: compares the two Results of pop
eqs_execute(es) ==
    IF Len(es.stack) = 0
    THEN [es EXCEPT !.stack = <<BoolVal(TRUE)>>, !.fault = Faulted(es, "underflow")]
    ELSE IF Len(es.stack) = 1
    THEN [es EXCEPT !.stack = <<BoolVal(FALSE)>>, !.fault = Faulted(es, "underflow")]
    ELSE LET a == Top(es.stack)
             b == Top(Pop(es.stack))
             popped == [es EXCEPT !.stack = Pop(Pop(es.stack))]
         IN IF a.k = "Function" /\ b.k = "Function"
            THEN Failed(popped, "panic", "mismatch")
            ELSE [popped EXCEPT !.stack = Append(popped.stack, BoolVal(a = b))]

\* SwapStatement / DupStatement / OverStatement / RotStatement::execute
shuffle_execute(op, es) ==
    LET v == es.stack
        need == CASE op = "swap" -> 2 [] op = "dup" -> 1 [] op = "over" -> 2 [] op = "rot" -> 3
    IN IF Len(v) < need THEN Failed(es, "panic", "underflow")
       ELSE CASE op = "swap" -> [es EXCEPT !.stack = Append(RemoveAt(v, 1), v[Len(v) - 1])]
              [] op = "dup" -> [es EXCEPT !.stack = Append(v, v[Len(v)])]
              [] op = "over" -> [es EXCEPT !.stack = Append(v, v[Len(v) - 1])]
              [] op = "rot" -> [es EXCEPT !.stack = Append(RemoveAt(v, 2), v[Len(v) - 2])]

\* ExitStatement::execute, with AliceStack::pop_typed
exit_execute(es) ==
    IF Len(es.stack) = 0 THEN Failed(es, "panic", "underflow")
    ELSE IF Top(es.stack).k # "Int" THEN Failed(es, "panic", "mismatch")
    ELSE [es EXCEPT !.stack = Pop(es.stack), !.status = "exit", !.code = Top(es.stack).n]

\* LetStatement::execute popping the stack head beside a default literal
let_execute_pop_always(s, es) ==
    IF Len(es.stack) = 0 THEN Failed(es, "panic", "underflow")
    ELSE [es EXCEPT !.table = Put(es.table, s.ident,
                                  IF s.haslit THEN s.val ELSE Top(es.stack)),
                    !.stack = Pop(es.stack)]

\* LetStatement::execute
let_execute(s, es) ==
    IF s.haslit THEN [es EXCEPT !.table = Put(es.table, s.ident, s.val)]
    ELSE IF Len(es.stack) = 0 THEN Failed(es, "panic", "underflow")
    ELSE [es EXCEPT !.table = Put(es.table, s.ident, Top(es.stack)),
                    !.stack = Pop(es.stack)]

\* PushFromTableStatement::execute with AliceTable::take in place of get
ref_execute_take(s, es) ==
    IF s.ident \notin DOMAIN es.table THEN Failed(es, "panic", "unbound")
    ELSE [es EXCEPT !.stack = Append(es.stack, es.table[s.ident]),
                    !.table = Take(es.table, s.ident)]

\* PushFromTableStatement::execute
ref_execute(s, es) ==
    IF s.ident \notin DOMAIN es.table THEN Failed(es, "panic", "unbound")
    ELSE [es EXCEPT !.stack = Append(es.stack, es.table[s.ident])]

RECURSIVE execute(_, _), execute_all(_, _)

\* ExecuteFunStatement::execute: take, clone, put back, then AliceFun::execute
call_execute(s, es) ==
    IF s.ident \notin DOMAIN es.table THEN Failed(es, "panic", "unbound")
    ELSE LET fun == es.table[s.ident]
             put_back == [es EXCEPT !.table = Put(Take(es.table, s.ident), s.ident, fun)]
         IN IF fun.k = "Function" THEN execute_all(fun.fn.body, put_back)
            ELSE Failed(put_back, "panic", "mismatch")

\* IfStatement::execute
if_execute(s, es) ==
    IF Len(es.stack) = 0 THEN Failed(es, "panic", "underflow")
    ELSE LET popped == [es EXCEPT !.stack = Pop(es.stack)]
         IN IF Top(es.stack).k # "Bool" THEN Failed(popped, "panic", "mismatch")
            ELSE IF Top(es.stack).n = 1 THEN execute_all(s.body, popped)
            ELSE popped

\* IfElseStatement::execute
ifelse_execute(s, es) ==
    IF Len(es.stack) = 0 THEN Failed(es, "panic", "underflow")
    ELSE LET popped == [es EXCEPT !.stack = Pop(es.stack)]
         IN IF Top(es.stack).k # "Bool" THEN Failed(popped, "panic", "mismatch")
            ELSE IF Top(es.stack).n = 1 THEN execute_all(s.body, popped)
            ELSE execute_all(s.els, popped)

\* Statement::execute, by statement shape
execute(s, es) ==
    CASE s.op = "push" -> [es EXCEPT !.stack = Append(es.stack, s.val)]
      [] s.op \in {"println", "print"} ->
            IF Len(es.stack) = 0 THEN Failed(es, "err", "underflow")
            ELSE IF Top(es.stack).k = "Object"
            THEN Failed([es EXCEPT !.stack = Pop(es.stack)], "panic", "todo")
            ELSE [es EXCEPT !.stack = Pop(es.stack)]
      [] s.op = "drop" ->
            IF Len(es.stack) = 0 THEN [es EXCEPT !.fault = Faulted(es, "underflow")]
            ELSE [es EXCEPT !.stack = Pop(es.stack)]
      [] s.op = "exit" -> exit_execute(es)
      [] s.op = "okexit" -> [es EXCEPT !.status = "exit", !.code = 0]
      [] s.op \in {"swap", "dup", "over", "rot"} -> shuffle_execute(s.op, es)
      [] s.op \in ArithOps -> arith_execute(s.op, es)
      [] s.op \in CmpOps -> cmp_execute(s.op, es)
      [] s.op = "eqs" -> eqs_execute(es)
      [] s.op = "clear" -> [es EXCEPT !.stack = <<>>]
      [] s.op = "let" -> let_execute(s, es)
      [] s.op = "ref" -> ref_execute(s, es)
      [] s.op = "fun" ->
            [es EXCEPT !.table =
                Put(es.table, s.ident, FunctionVal(AliceFun(s.args, s.ret, s.body)))]
      [] s.op = "call" -> call_execute(s, es)
      [] s.op = "if" -> if_execute(s, es)
      [] s.op = "ifelse" -> ifelse_execute(s, es)
      [] OTHER -> es

\* `for s in body { s.execute(stack, table)?; }`
execute_all(body, es) ==
    IF body = <<>> THEN es
    ELSE Once({IF r.status # "ok" THEN r ELSE execute_all(Tail(body), r) :
               r \in {execute(Head(body), es)}})

-----------------------------------------------------------------------------
(* lexer.rs: AliceLexer.  A text is a sequence of one-character strings; a  *)
(* position i is the index of the character iter.peek() would answer.  A    *)
(* Number token keeps its f64 as the mantissa m and the count k of fraction *)
(* digits (m / 10^k).                                                       *)

\* AliceToken
Tok(t, text, chars, m, k, dec) ==
    [t |-> t, text |-> text, chars |-> chars, m |-> m, k |-> k, dec |-> dec]

IdentOrKeyw(s) == Tok("IdentOrKeyw", s, <<>>, 0, 0, FALSE)

StringTok(chars) == Tok("String", "", chars, 0, 0, FALSE)

NumberTok(m, k, dec) == Tok("Number", "", <<>>, m, k, dec)

Sep(kind) == Tok("Sep", kind, <<>>, 0, 0, FALSE)

Op(kind) == Tok("Op", kind, <<>>, 0, 0, FALSE)

NoTok == Tok("none", "", <<>>, 0, 0, FALSE)

\* Result<AliceToken, AliceLexerErr> with the position the iterator is left at
LexOk(tok, next) == [ok |-> TRUE, err |-> "none", tok |-> tok, next |-> next]

LexErr(kind, next) == [ok |-> FALSE, err |-> kind, tok |-> NoTok, next |-> next]

\* char::is_whitespace, for the characters of the texts
Whitespace == {" ", "\n", "\t"}

\* AliceSeparator::all_chars
SeparatorChars == {"(", ")", "{", "}", "[", "]", ",", ".", ":", ";", "@"}

\* AliceOp::all_chars
OpChars == {"+", "-", "*", "/", "%", "="}

\* the operators `>` and `<` that AliceOp::Gt and AliceOp::Lt of the parser are lexed from
ComparisonOpChars == {">", "<"}

\* is_token_separator
is_token_separator(c) ==
    c \in SeparatorChars \cup OpChars \cup ComparisonOpChars \cup {"'", "\""}

DecDigits == <<"0", "1", "2", "3", "4", "5", "6", "7", "8", "9">>

HexDigits == DecDigits \o <<"a", "b", "c", "d", "e", "f">>

UpperHexDigits == DecDigits \o <<"A", "B", "C", "D", "E", "F">>

\* char::is_digit(radix)
is_digit(c, radix) ==
    \E d \in 1..radix : HexDigits[d] = c \/ UpperHexDigits[d] = c

\* char::to_digit(radix) of a digit
to_digit(c) == (CHOOSE d \in 1..16 : HexDigits[d] = c \/ UpperHexDigits[d] = c) - 1

\* AliceLexer::gobble_string: the `while let Some(c) = iter.peek()` loop
RECURSIVE gobble_string_from(_, _, _, _, _)
gobble_string_from(end, text, i, s, escaped) ==
    IF i > Len(text) THEN LexErr("MissingDelimeter", i)
    ELSE LET c == text[i]
         IN IF escaped
            THEN CASE c \in {"\\", "\"", "'"} -> gobble_string_from(end, text, i + 1, Append(s, c), FALSE)
                   [] c = "n" -> gobble_string_from(end, text, i + 1, Append(s, "\n"), FALSE)
                   [] c = "r" -> gobble_string_from(end, text, i + 1, Append(s, "\r"), FALSE)
                   [] c = "t" -> gobble_string_from(end, text, i + 1, Append(s, "\t"), FALSE)
                   [] OTHER -> LexErr("IllegalEscapeSequence", i)
            ELSE IF c = end THEN LexOk(StringTok(s), i + 1)
            ELSE IF c = "\\" THEN gobble_string_from(end, text, i + 1, s, TRUE)
            ELSE gobble_string_from(end, text, i + 1, Append(s, c), FALSE)

\* gobble_string closing a literal at the quote it was not opened with
gobble_string_other_quote(end, text, i) ==
    gobble_string_from(IF end = "'" THEN "\"" ELSE "'", text, i, <<>>, FALSE)

\* AliceLexer::gobble_string
gobble_string(end, text, i) == gobble_string_from(end, text, i, <<>>, FALSE)

\* the `.` test of a digit string (str::parse::<f64> / from_str_radix grammar)
Periods(s) == {j \in 1..Len(s) : s[j] = "."}

\* the digits of s read in the given base, most significant first
RECURSIVE radix_value(_, _)
radix_value(s, base) ==
    IF s = <<>> THEN 0
    ELSE radix_value(SubSeq(s, 1, Len(s) - 1), base) * base + to_digit(s[Len(s)])

\* the is_decimal flag of a Number token: a `.` was seen
is_decimal(s) == Periods(s) # {}

\* AliceLexer::parse_number: str::parse::<f64> for base 10 (digits with at
\* most one `.`, or the `0e..` a leading zero lets through), i64::from_str_radix
\* otherwise (digits only)
parse_number(s, base, next) ==
    LET digits == SelectSeq(s, LAMBDA c : c # ".")
        well_formed == /\ \A j \in 1..Len(digits) : is_digit(digits[j], base)
                       /\ digits # <<>>
                       /\ Cardinality(Periods(s)) <= (IF base = 10 THEN 1 ELSE 0)
        exponent_of_zero == /\ base = 10
                            /\ Len(s) >= 3
                            /\ s[1] = "0"
                            /\ s[2] \in {"e", "E"}
                            /\ \A j \in 3..Len(s) : is_digit(s[j], 10)
    IN IF exponent_of_zero THEN LexOk(NumberTok(0, 0, FALSE), next)
       ELSE IF ~well_formed THEN LexErr("NumberFormatErr", next)
       ELSE LET fraction == IF Periods(s) = {} THEN 0
                            ELSE Len(s) - (CHOOSE j \in Periods(s) : TRUE)
            IN LexOk(NumberTok(radix_value(digits, base), fraction, is_decimal(s)), next)

\* AliceLexer::gobble_number: the `while let Some(c) = iter.peek()` loop
RECURSIVE gobble_number_from(_, _, _, _, _)
gobble_number_from(text, i, s, base, had_period) ==
    IF i > Len(text) THEN parse_number(s, base, i)
    ELSE LET c == text[i]
         IN CASE is_digit(c, base) -> gobble_number_from(text, i + 1, Append(s, c), base, had_period)
              [] ~is_digit(c, base) /\ c = "_" -> gobble_number_from(text, i + 1, s, base, had_period)
              [] ~is_digit(c, base) /\ c = "." ->
                    IF had_period THEN LexErr("NumberFormatErr", i)
                    ELSE gobble_number_from(text, i + 1, Append(s, c), base, TRUE)
              [] ~is_digit(c, base) /\ c \notin {"_", "."}
                 /\ (is_token_separator(c) \/ c \in Whitespace) -> parse_number(s, base, i)
              [] OTHER -> LexErr("NumberFormatErr", i)

\* AliceLexer::gobble_number: the base hint after a leading `0`, then the loop
gobble_number(start, text, i) ==
    IF start # "0" THEN gobble_number_from(text, i, <<start>>, 10, start = ".")
    ELSE IF i > Len(text) THEN LexOk(NumberTok(0, 0, FALSE), i)
    ELSE LET b == text[i]
         IN CASE b = "x" -> gobble_number_from(text, i + 1, <<start>>, 16, FALSE)
              [] b = "b" -> gobble_number_from(text, i + 1, <<start>>, 2, FALSE)
              [] b \notin {"x", "b"} /\ (is_token_separator(b) \/ b \in Whitespace) ->
                    LexOk(NumberTok(0, 0, FALSE), i + 1)
              [] b \notin {"x", "b"} /\ ~(is_token_separator(b) \/ b \in Whitespace)
                 /\ (b = "_" \/ ~is_digit(b, 10)) ->
                    gobble_number_from(text, i + 1, <<start, b>>, 10, FALSE)
              [] OTHER -> LexErr("NumberFormatErr", i + 1)

\* AliceLexer::gobble_operator with From<char> for AliceOp
gobble_operator(start, text, i) ==
    IF i <= Len(text) /\ start = "*" /\ text[i] = "*" THEN LexOk(Op("Pow"), i + 1)
    ELSE LexOk(Op(CASE start = "+" -> "Add"
                    [] start = "-" -> "Sub"
                    [] start = "*" -> "Mul"
                    [] start = "/" -> "Div"
                    [] start = "%" -> "Mod"
                    [] start = "=" -> "Eqs"
                    [] start = ">" -> "Gt"
                    [] start = "<" -> "Lt"), i)

\* AliceLexer::gobble_separator
gobble_separator(sep, i) ==
    LexOk(Sep(CASE sep = "(" -> "OpenP"
                [] sep = ")" -> "CloseP"
                [] sep = "{" -> "OpenB"
                [] sep = "}" -> "CloseB"
                [] sep = "[" -> "OpenS"
                [] sep = "]" -> "CloseS"
                [] sep = "," -> "Comma"
                [] sep = "." -> "Period"
                [] sep = ":" -> "Colon"
                [] sep = ";" -> "Semi"
                [] sep = "@" -> "At"), i)

\* AliceLexer::gobble_ident_or_keyw
RECURSIVE gobble_ident_or_keyw(_, _, _)
gobble_ident_or_keyw(s, text, i) ==
    IF i > Len(text) \/ is_token_separator(text[i]) \/ text[i] \in Whitespace
    THEN LexOk(IdentOrKeyw(s), i)
    ELSE gobble_ident_or_keyw(s \o text[i], text, i + 1)

\* AliceLexer::gobble_token
lexer_gobble_token(start, text, i) ==
    CASE start \in {"\"", "'"} -> gobble_string(start, text, i)
      [] is_digit(start, 10) -> gobble_number(start, text, i)
      [] start \in OpChars \cup ComparisonOpChars -> gobble_operator(start, text, i)
      [] start \in SeparatorChars -> gobble_separator(start, i)
      [] OTHER -> gobble_ident_or_keyw(start, text, i)

\* AliceLexer::tokenize: [ok, err, toks]
RECURSIVE tokenize_from(_, _, _)
tokenize_from(text, i, toks) ==
    IF i > Len(text) THEN [ok |-> TRUE, err |-> "none", toks |-> toks]
    ELSE IF text[i] \in Whitespace THEN tokenize_from(text, i + 1, toks)
    ELSE Once({IF ~r.ok THEN [ok |-> FALSE, err |-> r.err, toks |-> <<>>]
               ELSE tokenize_from(text, r.next, Append(toks, r.tok)) :
               r \in {lexer_gobble_token(text[i], text, i + 1)}})

tokenize(text) == tokenize_from(text, 1, <<>>)

-----------------------------------------------------------------------------
(* The inputs.  A token stream is kept as what the parser makes of it: lex  *)
(* tells whether AliceLexer::tokenize answers Ok (an unterminated string    *)
(* does not); syn is "ok" when every gobble_* finds its grammar, "error"    *)
(* when one answers Err (`let let : int`), "todo" when the stream holds a   *)
(* token the parser meets with todo!() (`if`, `else`, `<`, `>`); stmts are  *)
(* the statements the tokens spell.                                         *)

MaxProgLen == 4
MaxLineLen == 2
MaxLines == 3
MaxStatements == 3
MaxDepth == 2

SeqsUpTo(S, n) == UNION {[1..k -> S] : k \in 0..n}

p1 == PushStatement(IntVal(1))
ps == PushStatement(StringVal(<<"s">>))
pt == PushStatement(BoolVal(TRUE))
pf == PushStatement(BoolVal(FALSE))
drop == St("drop")
add == St("add")
letx == LetStatement("x", INT)
refx == PushFromTableStatement("x")
\* fun x { }
funx == FunStatement("x", <<>>, 0, <<>>)
callx == ExecuteFunStatement("x")
\* fun g : string, int -> string { drop }
fung == FunStatement("g", <<STRING_BIT, INT>>, STRING_BIT, <<drop>>)
callg == ExecuteFunStatement("g")
\* fun h -> int { "s" }
funh == FunStatement("h", <<>>, INT, <<ps>>)
\* fun k { 1 }
funk == FunStatement("k", <<>>, 0, <<p1>>)
\* if { drop "s" }
if1 == IfStatement(<<drop, ps>>)
\* if { drop } (changes the depth)
if2 == IfStatement(<<drop>>)
\* if { if { drop "s" } } else { if { drop "s" } }
ife == IfElseStatement(<<if1>>, <<if1>>)
\* if { 1 } else { "s" } (the arms disagree)
ifd == IfElseStatement(<<p1>>, <<ps>>)
\* if { 1 } else { 1 }
ifs == IfElseStatement(<<p1>>, <<p1>>)
\* if { 1 let x : int } (binds x when the condition is true)
ifl == IfStatement(<<p1, letx>>)
\* if { 1 let x : int } else { } (binds x in one arm only)
ifel == IfElseStatement(<<p1, letx>>, <<>>)

\* the statements AliceParser builds from a program file
BatchAlphabet == {p1, ps, drop, add, letx, refx, funx, callx, fung, funh, funk}

\* the statements AliceParser builds from a line at the prompt
Alphabet == {p1, add, letx, refx, funx, funh}

\* the statements built as values of the Statement trait
StatementAlphabet ==
    {p1, ps, pt, drop, add, letx, refx, funx, callx, fung, callg, if1, if2, ife, ifd, ifs,
     ifl, ifel}

Source(lex, syn, stmts) == [lex |-> lex, syn |-> syn, stmts |-> stmts]

NoSource == Source(FALSE, "error", <<>>)

ErrorSources ==
    {Source(FALSE, "error", <<>>), Source(TRUE, "error", <<>>), Source(TRUE, "todo", <<>>)}

BatchSources ==
    ErrorSources \cup {Source(TRUE, "ok", p) : p \in SeqsUpTo(BatchAlphabet, MaxProgLen)}

LineSources ==
    ErrorSources \cup {Source(TRUE, "ok", p) : p \in SeqsUpTo(Alphabet, MaxLineLen)}

\* the operand stacks a statement is executed on
StartValues == {IntVal(1), StringVal(<<"s">>), BoolVal(TRUE), BoolVal(FALSE)}

StartStacks == SeqsUpTo(StartValues, MaxDepth)

\* one statement on its own: the values, the operand stacks and the
\* environments it is checked and executed in
MaxEffectDepth == 3

\* an object type tag: OBJECT | (hash << 5)
ObjectTag(hash) == OBJECT + 32 * hash

EffectValues ==
    {IntVal(1), IntVal(2), FloatVal(3), StringVal(<<"s">>), BoolVal(TRUE), BoolVal(FALSE),
     ObjectVal(ObjectTag(1))}

EffectStacks == SeqsUpTo(EffectValues, MaxEffectDepth)

\* fun f : int { drop }
funf == FunStatement("f", <<INT>>, 0, <<drop>>)
callf == ExecuteFunStatement("f")
\* let x : string
letxs == LetStatement("x", STRING_BIT)
\* let x : int = 2
letlit == LetLiteralStatement("x", INT, IntVal(2))
refy == PushFromTableStatement("y")
callz == ExecuteFunStatement("z")

\* the table and the checker's environments after `1 let x : int`,
\* `fun g : string, int -> string { drop }` and `fun f : int { drop }`
BoundEnv ==
    [table |-> Put(Put(Put(EmptyMap, "x", IntVal(1)),
                       "g", FunctionVal(AliceFun(fung.args, fung.ret, fung.body))),
                   "f", FunctionVal(AliceFun(funf.args, funf.ret, funf.body))),
     vars |-> Put(EmptyMap, "x", INT),
     funs |-> Put(Put(EmptyMap, "g", [args |-> fung.args, ret |-> fung.ret]),
                  "f", [args |-> funf.args, ret |-> funf.ret])]

EffectEnvs == {[table |-> EmptyMap, vars |-> EmptyMap, funs |-> EmptyMap], BoundEnv}

EffectAlphabet ==
    {St(op) : op \in ArithOps \cup CmpOps
                     \cup {"eqs", "swap", "dup", "over", "rot", "drop", "println", "print"}}
    \cup {letx, letxs, letlit, refx, refy, callg, callf, callz}

\* programs of function definitions
MaxDefLen == 3

lety == LetStatement("y", INT)
callr == ExecuteFunStatement("r")
\* fun r { r() }
funr == FunStatement("r", <<>>, 0, <<callr>>)
\* fun c { x() }
func == FunStatement("c", <<>>, 0, <<callx>>)
\* fun v -> int { x }
funv == FunStatement("v", <<>>, INT, <<refx>>)
\* fun w -> int { 1 let y : int y }
funw == FunStatement("w", <<>>, INT, <<p1, lety, refy>>)
funm == FunStatement("m", <<>>, 0, <<>>)
callm == ExecuteFunStatement("m")
calln == ExecuteFunStatement("n")
\* fun n { fun m { } m() }
funn == FunStatement("n", <<>>, 0, <<funm, callm>>)

\* fun a : any { dup drop drop }
funa == FunStatement("a", <<ANY>>, 0, <<St("dup"), drop, drop>>)

DefinitionAlphabet ==
    {p1, letx, refx, funx, callx, funr, func, funv, funw, funn, calln, funa}

DefinitionSources == {Source(TRUE, "ok", p) : p \in SeqsUpTo(DefinitionAlphabet, MaxDefLen)}

\* programs that exit
MaxExitLen == 3

p3 == PushStatement(IntVal(3))
\* fun e { 1 exit 3 let x : int }
fune == FunStatement("e", <<>>, 0, <<p1, St("exit"), p3, letx>>)
calle == ExecuteFunStatement("e")
\* fun o { okexit 3 let x : int }
funo == FunStatement("o", <<>>, 0, <<St("okexit"), p3, letx>>)
callo == ExecuteFunStatement("o")

ExitAlphabet == {p1, p3, ps, St("exit"), St("okexit"), letx, fune, calle, funo, callo}

ExitSources == {Source(TRUE, "ok", p) : p \in SeqsUpTo(ExitAlphabet, MaxExitLen)}

\* lines at the prompt whose statements can fail when they run
MaxShellLines == 2

p0 == PushStatement(IntVal(0))

ShellLines ==
    {<<p1, p0, St("div")>>, <<p1, p0, St("mod")>>, <<p1, p0>>, <<St("div")>>,
     <<p0, p1, St("sub")>>, <<p1, p0, p1, St("sub"), St("pow")>>, <<St("pow")>>,
     <<p1, p1, St("div"), St("drop")>>, <<p1>>, <<St("drop")>>,
     <<St("okexit")>>, <<p1, St("exit")>>}

ShellSources == {Source(TRUE, "ok", l) : l \in ShellLines}

\* operand stacks of integers of either sign and a float
MaxPow == 3

PowValues == {IntVal(n) : n \in (0 - MaxPow)..MaxPow} \cup {FloatVal(3)}

PowStacks == SeqsUpTo(PowValues, MaxEffectDepth)

\* patterns and the type stacks they meet
MaxPatternLen == 3
MaxPatternDepth == 3

PatternSlots == {STRING_BIT, INT, ANY}

Patterns == SeqsUpTo(PatternSlots, MaxPatternLen)

PatternTypeStacks == SeqsUpTo({STRING_BIT, INT, ANY, ObjectTag(1)}, MaxPatternDepth)

\* functions bound as t, their calls and the operand stacks of the calls
MaxBodyLen == 3

\* let t : int
lett == LetStatement("t", INT)
\* fun t { }
funt == FunStatement("t", <<>>, 0, <<>>)
callt == ExecuteFunStatement("t")

CallBodyAlphabet == {p1, ps, drop, St("clear"), lett, funt, letx, letxs}

\* the functions AliceFun::type_check accepts
CallFunctions ==
    {f \in {AliceFun(args, ret, body) :
                args \in {<<>>, <<INT>>}, ret \in {0, INT},
                body \in SeqsUpTo(CallBodyAlphabet, MaxBodyLen)} :
        AliceFun_type_check(f)}

CallStacks == SeqsUpTo({IntVal(1), StringVal(<<"s">>)}, 2)

\* the variable tables of the caller: nothing bound, or `2 let x : int`
CallTables == {EmptyMap, Put(EmptyMap, "x", IntVal(2))}

-----------------------------------------------------------------------------
(* parser.rs: AliceParser::parse *)

\* keyword::keywords
Keywords == {"let", "fun", "true", "false", "if", "else"}

\* AliceVal::for_type_name followed by type_bit; 0 is its Err
for_type_name(s) ==
    CASE s = "string" -> STRING_BIT
      [] s = "bool" -> BOOL
      [] s = "int" -> INT
      [] s = "float" -> FLOAT
      [] OTHER -> 0

\* type_check::type_bit_any_allowed; 0 is its Err
type_bit_any_allowed(name) == IF name = "any" THEN ANY ELSE for_type_name(name)

\* Result<Box<dyn Statement>, String> with the position the iterator is left
\* at; kind "parse_panic" is a todo!() met on the way
ParseOk(st, next) == [ok |-> TRUE, kind |-> "none", st |-> st, next |-> next]

ParseErr(kind, next) == [ok |-> FALSE, kind |-> kind, st |-> St("none"), next |-> next]

\* 10^k
RECURSIVE Pow10(_)
Pow10(k) == IF k = 0 THEN 1 ELSE 10 * Pow10(k - 1)

\* the decimal digits of n
RECURSIVE NatChars(_)
NatChars(n) ==
    IF n < 10 THEN <<DecDigits[n + 1]>> ELSE Append(NatChars(n \div 10), DecDigits[(n % 10) + 1])

\* the digits of the fraction f / 10^k, without trailing zeros
RECURSIVE FractionChars(_, _)
FractionChars(f, k) ==
    IF k = 0 \/ f = 0 THEN <<>>
    ELSE <<DecDigits[(f \div Pow10(k - 1)) + 1]>> \o FractionChars(f % Pow10(k - 1), k - 1)

\* f64::to_string of the Number token tok
to_string(tok) ==
    LET whole == tok.m \div Pow10(tok.k)
        fraction == tok.m % Pow10(tok.k)
    IN NatChars(whole) \o (IF fraction = 0 THEN <<>> ELSE <<".">> \o FractionChars(fraction, tok.k))

\* `f as i64` of the Number token tok
as_i64(tok) == tok.m \div Pow10(tok.k)

\* the f64 of the Number token tok as a Float payload (halves)
as_halves(tok) == (2 * tok.m) \div Pow10(tok.k)

\* AliceParser::maybe_at_conversion: [ok, ty, next]; ty = 0 is Ok(None)
maybe_at_conversion(toks, i) ==
    IF i <= Len(toks) /\ toks[i] = Sep("At")
    THEN IF i + 1 > Len(toks) THEN [ok |-> FALSE, ty |-> 0, next |-> i + 1]
         ELSE IF toks[i + 1].t = "IdentOrKeyw" /\ for_type_name(toks[i + 1].text) # 0
         THEN [ok |-> TRUE, ty |-> for_type_name(toks[i + 1].text), next |-> i + 2]
         ELSE [ok |-> FALSE, ty |-> 0, next |-> i + 2]
    ELSE [ok |-> TRUE, ty |-> 0, next |-> i]

\* AliceParser::gobble_string_literal
gobble_string_literal(tok, toks, i) ==
    LET c == maybe_at_conversion(toks, i)
    IN IF ~c.ok THEN ParseErr("parse_error", c.next)
       ELSE IF c.ty \in {0, STRING_BIT} THEN ParseOk(PushStatement(StringVal(tok.chars)), c.next)
       ELSE ParseErr("parse_panic", c.next)

\* AliceParser::gobble_number_literal
gobble_number_literal(tok, toks, i) ==
    LET c == maybe_at_conversion(toks, i)
    IN IF ~c.ok THEN ParseErr("parse_error", c.next)
       ELSE CASE c.ty = FLOAT -> ParseOk(PushStatement(FloatVal(as_halves(tok))), c.next)
              [] c.ty = INT -> ParseOk(PushStatement(IntVal(as_i64(tok))), c.next)
              [] c.ty = STRING_BIT -> ParseOk(PushStatement(StringVal(to_string(tok))), c.next)
              [] c.ty = 0 ->
                    IF tok.dec THEN ParseOk(PushStatement(FloatVal(as_halves(tok))), c.next)
                    ELSE ParseOk(PushStatement(IntVal(as_i64(tok))), c.next)
              [] OTHER -> ParseErr("parse_error", c.next)

\* AliceParser::gobble_operator
parser_gobble_operator(tok, i) ==
    CASE tok.text = "Add" -> ParseOk(St("add"), i)
      [] tok.text = "Sub" -> ParseOk(St("sub"), i)
      [] tok.text = "Mul" -> ParseOk(St("mul"), i)
      [] tok.text = "Div" -> ParseOk(St("div"), i)
      [] tok.text = "Pow" -> ParseOk(St("pow"), i)
      [] tok.text = "Mod" -> ParseOk(St("mod"), i)
      [] tok.text \in {"Gt", "Lt"} -> ParseErr("parse_panic", i)
      [] OTHER -> ParseErr("parse_error", i)

\* AliceParser::maybe_gobble_statement: the statement names
StatementNames ==
    {"println", "print", "pstack", "exit", "okexit", "drop", "swap", "dup", "over", "rot",
     "clear"}

\* AliceParser::gobble_ident
gobble_ident(ident, toks, i) ==
    IF i <= Len(toks) /\ toks[i] = Sep("OpenP")
    THEN IF i + 1 <= Len(toks) /\ toks[i + 1] = Sep("CloseP")
         THEN ParseOk(ExecuteFunStatement(ident), i + 2)
         ELSE ParseErr("parse_error", i + 2)
    ELSE ParseOk(PushFromTableStatement(ident), i)

\* AliceParser::gobble_let
gobble_let(toks, i) ==
    IF /\ i + 2 <= Len(toks)
       /\ toks[i].t = "IdentOrKeyw"
       /\ toks[i + 1] = Sep("Colon")
       /\ toks[i + 2].t = "IdentOrKeyw"
    THEN IF toks[i].text \in Keywords THEN ParseErr("parse_error", i + 3)
         ELSE IF for_type_name(toks[i + 2].text) = 0 THEN ParseErr("parse_error", i + 3)
         ELSE ParseOk(LetStatement(toks[i].text, for_type_name(toks[i + 2].text)), i + 3)
    ELSE ParseErr("parse_error", i + 3)

\* AliceParser::parse_fun_return_after_dash: [ok, ty, next]
parse_fun_return_after_dash(toks, i) ==
    IF ~(i <= Len(toks) /\ toks[i] = Op("Gt")) THEN [ok |-> FALSE, ty |-> 0, next |-> i + 1]
    ELSE IF /\ i + 2 <= Len(toks)
            /\ toks[i + 1].t = "IdentOrKeyw"
            /\ toks[i + 2] = Sep("OpenB")
            /\ for_type_name(toks[i + 1].text) # 0
    THEN [ok |-> TRUE, ty |-> for_type_name(toks[i + 1].text), next |-> i + 3]
    ELSE [ok |-> FALSE, ty |-> 0, next |-> i + 3]

\* gobble_fun, case 3: the `while let Some(ty) = iter.next()` loop over the
\* signature; [ok, args, ret, next]
RECURSIVE gobble_signature(_, _, _, _)
gobble_signature(toks, i, args, comma_ok) ==
    IF i > Len(toks) THEN [ok |-> args # <<>>, args |-> args, ret |-> 0, next |-> i]
    ELSE LET ty == toks[i]
         IN CASE ty.t = "IdentOrKeyw" ->
                    IF type_bit_any_allowed(ty.text) = 0
                    THEN [ok |-> FALSE, args |-> args, ret |-> 0, next |-> i + 1]
                    ELSE gobble_signature(toks, i + 1,
                                          Append(args, type_bit_any_allowed(ty.text)), TRUE)
              [] ty = Sep("Comma") ->
                    IF comma_ok THEN gobble_signature(toks, i + 1, args, FALSE)
                    ELSE [ok |-> FALSE, args |-> args, ret |-> 0, next |-> i + 1]
              [] ty = Op("Sub") ->
                    LET r == parse_fun_return_after_dash(toks, i + 1)
                    IN [ok |-> r.ok /\ args # <<>>, args |-> args, ret |-> r.ty, next |-> r.next]
              [] ty = Sep("OpenB") -> [ok |-> args # <<>>, args |-> args, ret |-> 0, next |-> i + 1]
              [] OTHER -> [ok |-> FALSE, args |-> args, ret |-> 0, next |-> i + 1]

RECURSIVE parser_gobble_token(_, _, _), gobble_block(_, _, _), gobble_fun(_, _)

\* gobble_fun after its signature: gobble_block, fun.type_check()?, FunStatement
gobble_fun_body(ident, args, ret, toks, i) ==
    Once({IF ~b.ok THEN ParseErr(b.kind, b.next)
          ELSE IF ~AliceFun_type_check(AliceFun(args, ret, b.stmts))
          THEN ParseErr("fun_error", b.next)
          ELSE ParseOk(FunStatement(ident, args, ret, b.stmts), b.next) :
          b \in {gobble_block(toks, i, <<>>)}})

\* AliceParser::gobble_fun
gobble_fun(toks, i) ==
    IF ~(i <= Len(toks) /\ toks[i].t = "IdentOrKeyw") THEN ParseErr("parse_error", i + 1)
    ELSE LET ident == toks[i].text
         IN IF i + 1 <= Len(toks) /\ toks[i + 1] = Sep("OpenB")
            THEN gobble_fun_body(ident, <<>>, 0, toks, i + 2)
            ELSE IF i + 1 <= Len(toks) /\ toks[i + 1] = Op("Sub")
            THEN LET r == parse_fun_return_after_dash(toks, i + 2)
                 IN IF ~r.ok THEN ParseErr("parse_error", r.next)
                    ELSE gobble_fun_body(ident, <<>>, r.ty, toks, r.next)
            ELSE IF i + 1 <= Len(toks) /\ toks[i + 1] = Sep("Colon")
            THEN LET sig == gobble_signature(toks, i + 2, <<>>, FALSE)
                 IN IF ~sig.ok THEN ParseErr("parse_error", sig.next)
                    ELSE gobble_fun_body(ident, sig.args, sig.ret, toks, sig.next)
            ELSE ParseErr("parse_error", i + 2)

\* AliceParser::gobble_block: [ok, kind, stmts, next]
gobble_block(toks, i, vec) ==
    IF i > Len(toks) THEN [ok |-> FALSE, kind |-> "parse_error", stmts |-> vec, next |-> i]
    ELSE IF toks[i] = Sep("CloseB")
    THEN [ok |-> TRUE, kind |-> "none", stmts |-> vec, next |-> i + 1]
    ELSE Once({IF ~r.ok THEN [ok |-> FALSE, kind |-> r.kind, stmts |-> vec, next |-> r.next]
               ELSE gobble_block(toks, r.next, Append(vec, r.st)) :
               r \in {parser_gobble_token(toks[i], toks, i + 1)}})

\* AliceParser::gobble_token with gobble_ident_or_kw and gobble_kw
parser_gobble_token(tok, toks, i) ==
    CASE tok.t = "IdentOrKeyw" ->
            CASE tok.text = "true" -> ParseOk(PushStatement(BoolVal(TRUE)), i)
              [] tok.text = "false" -> ParseOk(PushStatement(BoolVal(FALSE)), i)
              [] tok.text = "let" -> gobble_let(toks, i)
              [] tok.text = "fun" -> gobble_fun(toks, i)
              [] tok.text \in {"if", "else"} -> ParseErr("parse_panic", i)
              [] tok.text \in StatementNames -> ParseOk(St(tok.text), i)
              [] OTHER -> gobble_ident(tok.text, toks, i)
      [] tok.t = "String" -> gobble_string_literal(tok, toks, i)
      [] tok.t = "Number" -> gobble_number_literal(tok, toks, i)
      [] tok.t = "Op" -> parser_gobble_operator(tok, i)
      [] OTHER -> ParseErr("parse_panic", i)

\* AliceParser::parse: the `while let Some(token) = iter.next()` loop over
\* the tokens themselves; [ok, kind, stmts]
RECURSIVE gobble_tokens(_, _, _)
gobble_tokens(toks, i, vec) ==
    IF i > Len(toks) THEN [ok |-> TRUE, kind |-> "none", stmts |-> vec]
    ELSE Once({IF ~r.ok THEN [ok |-> FALSE, kind |-> r.kind, stmts |-> vec]
               ELSE gobble_tokens(toks, r.next, Append(vec, r.st)) :
               r \in {parser_gobble_token(toks[i], toks, i + 1)}})

\* AliceParser::parse(None) of the tokens themselves; [ok, kind, n, stmts]
parse_tokens(toks) ==
    Once({IF ~g.ok THEN [ok |-> FALSE, kind |-> g.kind, n |-> 0, stmts |-> <<>>]
          ELSE Once({IF c.ok THEN [ok |-> TRUE, kind |-> "accepted", n |-> 0, stmts |-> g.stmts]
                     ELSE IF c.n > 0
                     THEN [ok |-> FALSE, kind |-> "excess", n |-> c.n, stmts |-> <<>>]
                     ELSE [ok |-> FALSE, kind |-> "type_error", n |-> 0, stmts |-> <<>>] :
                     c \in {check(g.stmts)}}) :
          g \in {gobble_tokens(toks, 1, <<>>)}})

\* gobble_fun without its `fun.type_check()?`
funs_type_check_skipped(stmts) == TRUE

\* gobble_fun / gobble_block: every `fun` is type-checked as soon as its block
\* is gobbled, nested ones first
RECURSIVE funs_type_check(_)
funs_type_check(stmts) ==
    \A i \in 1..Len(stmts) :
        /\ funs_type_check(stmts[i].body)
        /\ funs_type_check(stmts[i].els)
        /\ stmts[i].op = "fun" =>
              AliceFun_type_check(AliceFun(stmts[i].args, stmts[i].ret, stmts[i].body))

\* the `while let Some(token) = iter.next()` loop of parse
gobble(toks) ==
    IF toks.syn = "todo" THEN [ok |-> FALSE, kind |-> "parse_panic"]
    ELSE IF toks.syn = "error" THEN [ok |-> FALSE, kind |-> "parse_error"]
    ELSE IF ~funs_type_check(toks.stmts) THEN [ok |-> FALSE, kind |-> "fun_error"]
    ELSE [ok |-> TRUE, kind |-> "none"]

\* AliceParser::parse(None)
parse_batch(toks) ==
    Once({IF ~g.ok THEN [ok |-> FALSE, kind |-> g.kind, n |-> 0]
          ELSE Once({IF c.ok THEN [ok |-> TRUE, kind |-> "accepted", n |-> 0]
                     ELSE IF c.n > 0 THEN [ok |-> FALSE, kind |-> "excess", n |-> c.n]
                     ELSE [ok |-> FALSE, kind |-> "type_error", n |-> 0] :
                     c \in {check(toks.stmts)}}) :
          g \in {gobble(toks)}})

\* AliceParser::parse(Some(&mut type_stack))
parse_interactive(toks, ts) ==
    Once({IF ~g.ok THEN [ok |-> FALSE, kind |-> g.kind, ts |-> ts]
          ELSE Once({IF c.ok THEN [ok |-> TRUE, kind |-> "accepted", ts |-> c.ts]
                     ELSE [ok |-> FALSE, kind |-> "type_error", ts |-> c.ts] :
                     c \in {check_interactive(ts, toks.stmts)}}) :
          g \in {gobble(toks)}})

-----------------------------------------------------------------------------
(* Program texts.  A text is spelled word by word; Spell joins the words    *)
(* with single spaces.                                                      *)

RECURSIVE Spell(_)
Spell(words) ==
    IF words = <<>> THEN <<>>
    ELSE IF Len(words) = 1 THEN words[1]
    ELSE words[1] \o <<" ">> \o Spell(Tail(words))

W_let == <<"l", "e", "t">>
W_fun == <<"f", "u", "n">>
W_if == <<"i", "f">>
W_else == <<"e", "l", "s", "e">>
W_true == <<"t", "r", "u", "e">>
W_false == <<"f", "a", "l", "s", "e">>
W_x == <<"x">>
W_int == <<"i", "n", "t">>
W_float == <<"f", "l", "o", "a", "t">>
W_string == <<"s", "t", "r", "i", "n", "g">>
W_bool == <<"b", "o", "o", "l">>
W_drop == <<"d", "r", "o", "p">>

\* the keywords and one plain identifier, as words
NameWords == {W_let, W_fun, W_if, W_else, W_true, W_false, W_x}

\* `let ID : int`, `fun ID { }`, `fun ID -> int { 1 }` and `fun ID : int { drop }`
\* for every name ID, alone, after `1` and before `1 drop`
BindingTexts ==
    LET bindings ==
            UNION {{<<W_let, id, <<":">>, W_int>>,
                    <<W_fun, id, <<"{">>, <<"}">>>>,
                    <<W_fun, id, <<"-", ">">>, W_int, <<"{">>, <<"1">>, <<"}">>>>,
                    <<W_fun, id, <<":">>, W_int, <<"{">>, W_drop, <<"}">>>>} : id \in NameWords}
    IN {Spell(b) : b \in bindings}
       \cup {Spell(<<<<"1">>>> \o b) : b \in bindings}
       \cup {Spell(b \o <<<<"1">>, W_drop>>) : b \in bindings}

\* number literals as words
NumberWords ==
    {<<"1">>, <<"1", "2">>, <<"1", ".", "5">>, <<"2", ".", "0">>, <<"0">>, <<"0", ".", "5">>}

\* `@T` as one word
AtWord(T) == <<"@">> \o T

\* the target types a number literal converts to, with their bitmasks
CoercionTypes == {<<W_int, INT>>, <<W_float, FLOAT>>, <<W_string, STRING_BIT>>}

\* what follows `@` otherwise: another type name, a name that is no type,
\* nothing, a token that is no name
OtherTargets == {<<AtWord(W_bool)>>, <<AtWord(<<"a", "n", "y">>)>>, <<AtWord(W_x)>>,
                 <<<<"@">>>>, <<<<"@">>, <<"1">>>>}

\* what follows a rejected literal: nothing, or `drop`
LiteralRests == {<<>>, <<W_drop>>}

\* `n drop`, `n @T drop`, `n@T drop` and the `n @..` that are no conversion,
\* for every number literal n
LiteralTexts ==
    UNION {{Spell(<<n, W_drop>>)}
           \cup {Spell(<<n, AtWord(c[1]), W_drop>>) : c \in CoercionTypes}
           \cup {Spell(<<n \o AtWord(c[1]), W_drop>>) : c \in CoercionTypes}
           \cup {Spell(<<n>> \o o \o rest) : o \in OtherTargets, rest \in LiteralRests} :
           n \in NumberWords}

\* texts that open a string literal
MaxStringLen == 4

StringChars == {"\"", "'", "\\", "n", "r", "t", "a", " "}

StringTexts ==
    {<<q>> \o body : q \in {"\"", "'"}, body \in SeqsUpTo(StringChars, MaxStringLen)}

\* texts that open a number literal
MaxNumberLen == 4

NumberChars == {"0", "1", "_", ".", "x", "b", "f"}

NumberTexts ==
    {<<d>> \o body : d \in {"0", "1"}, body \in SeqsUpTo(NumberChars, MaxNumberLen)}

\* texts that open with a `0` and a character that ends it
MaxZeroRest == 2

ZeroFollowers == Whitespace \cup (SeparatorChars \ {"."}) \cup OpChars

ZeroTexts ==
    {<<"0", c>> \o rest : c \in ZeroFollowers, rest \in SeqsUpTo({"1", "f", " "}, MaxZeroRest)}

-----------------------------------------------------------------------------
(* main.rs: the drivers *)

Init ==
    /\ src = <<>>
    /\ pattern = <<>>
    /\ mode \in {"batch", "interactive"}
    /\ pc = IF mode = "batch" THEN "start" ELSE "prompt"
    /\ tokens = NoSource
    /\ statements = <<>>
    /\ ip = 0
    /\ stack = <<>>
    /\ table = EmptyMap
    /\ type_stack = TypeStack_new
    /\ outcome = "none"
    /\ excess = 0
    /\ code = 0
    /\ ttrace = <<>>
    /\ fault = "none"
    /\ executed = 0
    /\ nlines = 0
    /\ line0 = [stack |-> <<>>, table |-> EmptyMap, type_stack |-> TypeStack_new]

\* the loop of main going on after process::exit
AfterBatch_exit_returns(r, last) ==
    CASE r.status = "err" -> "failed"
      [] r.status = "panic" -> "aborted"
      [] OTHER -> IF last THEN "done" ELSE "exec"

\* where the driver stands after a statement's execute answered r
AfterBatch(r, last) ==
    CASE r.status = "err" -> "failed"
      [] r.status = "panic" -> "aborted"
      [] r.status = "exit" -> "exited"
      [] OTHER -> IF last THEN "done" ELSE "exec"

AfterInteractive(r, last) ==
    CASE r.status = "panic" -> "aborted"
      [] r.status = "exit" -> "exited"
      [] OTHER -> IF last THEN "prompt" ELSE "exec"

\* the exit status of the process: main's Err is 1, a panic 101
ExitStatus(r, where) ==
    CASE where = "failed" -> 1
      [] where = "aborted" -> 101
      [] where = "exited" -> r.code
      [] OTHER -> 0

\* main: AliceLexer::new(load_src(&file)?, file).tokenize()
main_tokenize ==
    /\ mode = "batch"
    /\ pc = "start"
    /\ \E input \in BatchSources :
          /\ tokens' = input
          /\ pc' = IF input.lex THEN "lexed" ELSE "failed"
          /\ outcome' = IF input.lex THEN "none" ELSE "lex_error"
          /\ code' = IF input.lex THEN 0 ELSE 1
    /\ UNCHANGED <<src, pattern, mode, statements, ip, stack, table, type_stack, excess, ttrace,
                   fault, executed, nlines, line0>>

\* main without its `if let Err(msg) = statements { return Err(..) }`: the
\* statements the tokens spell are run whatever parse answered
main_parse_unchecked ==
    /\ mode = "batch"
    /\ pc = "lexed"
    /\ \E r \in {parse_batch(tokens)} :
          /\ outcome' = r.kind
          /\ excess' = r.n
          /\ statements' = tokens.stmts
          /\ ttrace' = TypeTrace(TypeStack_new, tokens.stmts)
          /\ pc' = IF tokens.stmts = <<>> THEN "done" ELSE "exec"
          /\ code' = 0
    /\ UNCHANGED <<src, pattern, mode, tokens, ip, stack, table, type_stack, fault, executed, nlines,
                   line0>>

\* main: AliceParser::new(tokens).parse(None)
main_parse ==
    /\ mode = "batch"
    /\ pc = "lexed"
    /\ \E r \in {parse_batch(tokens)} :
          /\ outcome' = r.kind
          /\ excess' = r.n
          /\ statements' = IF r.ok THEN tokens.stmts ELSE statements
          /\ ttrace' = IF r.ok THEN TypeTrace(TypeStack_new, tokens.stmts) ELSE ttrace
          /\ pc' = IF r.kind = "parse_panic" THEN "aborted"
                   ELSE IF ~r.ok THEN "failed"
                   ELSE IF tokens.stmts = <<>> THEN "done" ELSE "exec"
          /\ code' = IF r.kind = "parse_panic" THEN 101 ELSE IF r.ok THEN 0 ELSE 1
    /\ UNCHANGED <<src, pattern, mode, tokens, ip, stack, table, type_stack, fault, executed, nlines,
                   line0>>

\* a loop of main that executes every statement twice
main_execute_twice ==
    /\ mode = "batch"
    /\ pc = "exec"
    /\ \E r \in {execute(statements[ip + 1],
                         execute(statements[ip + 1],
                                 [stack |-> stack, table |-> table, status |-> "ok",
                                  code |-> 0, fault |-> fault]))} :
       LET where == AfterBatch(r, ip + 1 = Len(statements))
       IN /\ stack' = r.stack
          /\ table' = r.table
          /\ fault' = r.fault
          /\ pc' = where
          /\ code' = ExitStatus(r, where)
    /\ ip' = ip + 1
    /\ executed' = executed + 2
    /\ UNCHANGED <<src, pattern, mode, tokens, statements, type_stack, outcome, excess, ttrace,
                   nlines, line0>>

\* main: one turn of `for s in statements { s.execute(..) }`
main_execute ==
    /\ mode = "batch"
    /\ pc = "exec"
    /\ \E r \in {execute(statements[ip + 1],
                         [stack |-> stack, table |-> table, status |-> "ok",
                          code |-> 0, fault |-> fault])} :
       LET where == AfterBatch(r, ip + 1 = Len(statements))
       IN /\ stack' = r.stack
          /\ table' = r.table
          /\ fault' = r.fault
          /\ pc' = where
          /\ code' = ExitStatus(r, where)
    /\ ip' = ip + 1
    /\ executed' = executed + 1
    /\ UNCHANGED <<src, pattern, mode, tokens, statements, type_stack, outcome, excess, ttrace,
                   nlines, line0>>

\* launch_interactive: read_line and tokenize
interactive_tokenize ==
    /\ mode = "interactive"
    /\ pc = "prompt"
    /\ nlines < MaxLines
    /\ \E input \in LineSources :
          /\ tokens' = input
          /\ pc' = IF input.lex THEN "lexed" ELSE "prompt"
          /\ outcome' = IF input.lex THEN "none" ELSE "lex_error"
    /\ nlines' = nlines + 1
    /\ statements' = <<>>
    /\ ip' = 0
    /\ executed' = 0
    /\ ttrace' = <<>>
    /\ line0' = [stack |-> stack, table |-> table, type_stack |-> type_stack]
    /\ UNCHANGED <<src, pattern, mode, stack, table, type_stack, excess, code, fault>>

\* launch_interactive: parser.parse(Some(&mut type_stack)) and, on Err, "have
\* to redo type stack"
interactive_parse ==
    /\ mode = "interactive"
    /\ pc = "lexed"
    /\ \E r \in {parse_interactive(tokens, type_stack)} :
       LET typed == {n \in 0..Len(stack) : \A i \in 1..n : stack[i].k # "Function"}
           reached == CHOOSE n \in typed : \A m \in typed : m <= n
           redo == [r.ts EXCEPT !.vals = TypesOf(SubSeq(stack, 1, reached))]
           panics == r.kind = "parse_panic" \/ (~r.ok /\ reached < Len(stack))
       IN /\ outcome' = r.kind
          /\ statements' = IF r.ok THEN tokens.stmts ELSE statements
          /\ ttrace' = IF r.ok THEN TypeTrace(type_stack, tokens.stmts) ELSE ttrace
          /\ type_stack' = IF r.ok \/ r.kind = "parse_panic" THEN r.ts ELSE redo
          /\ pc' = IF r.ok THEN (IF tokens.stmts = <<>> THEN "prompt" ELSE "exec")
                   ELSE IF panics THEN "aborted" ELSE "prompt"
          /\ code' = IF panics THEN 101 ELSE code
    /\ UNCHANGED <<src, pattern, mode, tokens, ip, stack, table, excess, fault, executed, nlines, line0>>

\* launch_interactive: one turn of `for s in statements { s.execute(..) }`
interactive_execute ==
    /\ mode = "interactive"
    /\ pc = "exec"
    /\ \E r \in {execute(statements[ip + 1],
                         [stack |-> stack, table |-> table, status |-> "ok",
                          code |-> 0, fault |-> fault])} :
       LET where == AfterInteractive(r, ip + 1 = Len(statements))
       IN /\ stack' = r.stack
          /\ table' = r.table
          /\ fault' = r.fault
          /\ pc' = where
          /\ code' = ExitStatus(r, where)
    /\ ip' = ip + 1
    /\ executed' = executed + 1
    /\ UNCHANGED <<src, pattern, mode, tokens, statements, type_stack, outcome, excess, ttrace,
                   nlines, line0>>

\* main past the lexer, with the tokens of a program of function definitions
DefinitionInit ==
    /\ src = <<>>
    /\ pattern = <<>>
    /\ mode = "batch"
    /\ pc = "lexed"
    /\ tokens \in DefinitionSources
    /\ statements = <<>>
    /\ ip = 0
    /\ stack = <<>>
    /\ table = EmptyMap
    /\ type_stack = TypeStack_new
    /\ outcome = "none"
    /\ excess = 0
    /\ code = 0
    /\ ttrace = <<>>
    /\ fault = "none"
    /\ executed = 0
    /\ nlines = 0
    /\ line0 = [stack |-> <<>>, table |-> EmptyMap, type_stack |-> TypeStack_new]

\* main with the text of the program file
TextInit(texts) ==
    /\ src \in texts
    /\ pattern = <<>>
    /\ mode = "batch"
    /\ pc = "start"
    /\ tokens = [lex |-> FALSE, err |-> "none", toks |-> <<>>]
    /\ statements = <<>>
    /\ ip = 0
    /\ stack = <<>>
    /\ table = EmptyMap
    /\ type_stack = TypeStack_new
    /\ outcome = "none"
    /\ excess = 0
    /\ code = 0
    /\ ttrace = <<>>
    /\ fault = "none"
    /\ executed = 0
    /\ nlines = 0
    /\ line0 = [stack |-> <<>>, table |-> EmptyMap, type_stack |-> TypeStack_new]

\* main: AliceLexer::new(load_src(&file)?, file).tokenize(), on the text itself
main_tokenize_text ==
    /\ mode = "batch"
    /\ pc = "start"
    /\ \E r \in {tokenize(src)} :
          /\ tokens' = [lex |-> r.ok, err |-> r.err, toks |-> r.toks]
          /\ pc' = IF r.ok THEN "lexed" ELSE "failed"
          /\ outcome' = IF r.ok THEN "none" ELSE "lex_error"
          /\ code' = IF r.ok THEN 0 ELSE 1
    /\ UNCHANGED <<src, pattern, mode, statements, ip, stack, table, type_stack, excess, ttrace,
                   fault, executed, nlines, line0>>

\* main: AliceParser::new(tokens).parse(None), on the tokens themselves
main_parse_tokens ==
    /\ mode = "batch"
    /\ pc = "lexed"
    /\ \E r \in {parse_tokens(tokens.toks)} :
          /\ outcome' = r.kind
          /\ excess' = r.n
          /\ statements' = IF r.ok THEN r.stmts ELSE statements
          /\ ttrace' = IF r.ok THEN TypeTrace(TypeStack_new, r.stmts) ELSE ttrace
          /\ pc' = IF r.kind = "parse_panic" THEN "aborted"
                   ELSE IF ~r.ok THEN "failed"
                   ELSE IF r.stmts = <<>> THEN "done" ELSE "exec"
          /\ code' = IF r.kind = "parse_panic" THEN 101 ELSE IF r.ok THEN 0 ELSE 1
    /\ UNCHANGED <<src, pattern, mode, tokens, ip, stack, table, type_stack, fault, executed, nlines,
                   line0>>

BindingInit == TextInit(BindingTexts)

LiteralInit == TextInit(LiteralTexts)

\* launch_interactive before its first prompt
ShellInit ==
    /\ src = <<>>
    /\ pattern = <<>>
    /\ mode = "interactive"
    /\ pc = "prompt"
    /\ tokens = NoSource
    /\ statements = <<>>
    /\ ip = 0
    /\ stack = <<>>
    /\ table = EmptyMap
    /\ type_stack = TypeStack_new
    /\ outcome = "none"
    /\ excess = 0
    /\ code = 0
    /\ ttrace = <<>>
    /\ fault = "none"
    /\ executed = 0
    /\ nlines = 0
    /\ line0 = [stack |-> <<>>, table |-> EmptyMap, type_stack |-> TypeStack_new]

\* launch_interactive: read_line(..).expect("reading stdin failed") and
\* tokenize; a failed read is a panic
interactive_read_line ==
    /\ mode = "interactive"
    /\ pc = "prompt"
    /\ nlines < MaxShellLines
    /\ \/ /\ tokens' = NoSource
          /\ pc' = "aborted"
          /\ outcome' = "stdin_error"
          /\ code' = 101
       \/ \E input \in ShellSources :
             /\ tokens' = input
             /\ pc' = "lexed"
             /\ outcome' = "none"
             /\ code' = code
    /\ nlines' = nlines + 1
    /\ statements' = <<>>
    /\ ip' = 0
    /\ executed' = 0
    /\ ttrace' = <<>>
    /\ line0' = [stack |-> stack, table |-> table, type_stack |-> type_stack]
    /\ UNCHANGED <<src, pattern, mode, stack, table, type_stack, excess, fault>>

StringInit == TextInit(StringTexts)

NumberInit == TextInit(NumberTexts)

ZeroInit == TextInit(ZeroTexts)

\* main past the lexer, with the tokens of a program that exits
ExitInit ==
    /\ src = <<>>
    /\ pattern = <<>>
    /\ mode = "batch"
    /\ pc = "lexed"
    /\ tokens \in ExitSources
    /\ statements = <<>>
    /\ ip = 0
    /\ stack = <<>>
    /\ table = EmptyMap
    /\ type_stack = TypeStack_new
    /\ outcome = "none"
    /\ excess = 0
    /\ code = 0
    /\ ttrace = <<>>
    /\ fault = "none"
    /\ executed = 0
    /\ nlines = 0
    /\ line0 = [stack |-> <<>>, table |-> EmptyMap, type_stack |-> TypeStack_new]

\* The Statement trait on its own: a statement built as a value is checked as
\* check_rc checks it (in_pattern, custom_type_check, out_pattern) against the
\* type stack of the operand stack, and executed when the check passed.

StatementInit ==
    /\ src = <<>>
    /\ pattern = <<>>
    /\ mode = "statement"
    /\ pc = "ready"
    /\ tokens = NoSource
    /\ statements = <<>>
    /\ ip = 0
    /\ stack \in StartStacks
    /\ table = EmptyMap
    /\ type_stack = [TypeStack_new EXCEPT !.vals = TypesOf(stack)]
    /\ outcome = "none"
    /\ excess = 0
    /\ code = 0
    /\ ttrace = <<>>
    /\ fault = "none"
    /\ executed = 0
    /\ nlines = 0
    /\ line0 = [stack |-> stack, table |-> EmptyMap,
                type_stack |-> [TypeStack_new EXCEPT !.vals = TypesOf(stack)]]

AfterStatement(r) ==
    CASE r.status = "err" -> "failed"
      [] r.status = "panic" -> "aborted"
      [] r.status = "exit" -> "exited"
      [] OTHER -> "ready"

\* one turn of check_rc's loop on the statement s
statement_check ==
    /\ mode = "statement"
    /\ pc = "ready"
    /\ nlines < MaxStatements
    /\ \E s \in StatementAlphabet :
       \E r \in {check_rc(type_stack, <<s>>)} :
          /\ statements' = <<s>>
          /\ outcome' = IF r.ok THEN "accepted" ELSE "type_error"
          /\ type_stack' = r.ts
          /\ ttrace' = <<type_stack.vals, r.ts.vals>>
          /\ pc' = IF r.ok THEN "exec" ELSE "rejected"
    /\ nlines' = nlines + 1
    /\ ip' = 0
    /\ executed' = 0
    /\ line0' = [stack |-> stack, table |-> table, type_stack |-> type_stack]
    /\ UNCHANGED <<src, pattern, mode, tokens, stack, table, excess, code, fault>>

\* Statement::execute of the checked statement
statement_execute ==
    /\ mode = "statement"
    /\ pc = "exec"
    /\ \E r \in {execute(statements[1],
                         [stack |-> stack, table |-> table, status |-> "ok",
                          code |-> 0, fault |-> fault])} :
       LET where == AfterStatement(r)
       IN /\ stack' = r.stack
          /\ table' = r.table
          /\ fault' = r.fault
          /\ pc' = where
          /\ code' = ExitStatus(r, where)
    /\ ip' = 1
    /\ executed' = 1
    /\ UNCHANGED <<src, pattern, mode, tokens, statements, type_stack, outcome, excess, ttrace,
                   nlines, line0>>

\* One statement, built as a value, on every operand stack and in every
\* environment of the bounded sets: checked against the type stack of the
\* operand stack and, when the check passed, executed.

EffectInit ==
    /\ src = <<>>
    /\ pattern = <<>>
    /\ mode = "effect"
    /\ pc = "ready"
    /\ tokens = NoSource
    /\ statements = <<>>
    /\ ip = 0
    /\ stack \in EffectStacks
    /\ \E env \in EffectEnvs :
          /\ table = env.table
          /\ type_stack = [vars |-> env.vars, vals |-> TypesOf(stack), funs |-> env.funs]
    /\ outcome = "none"
    /\ excess = 0
    /\ code = 0
    /\ ttrace = <<>>
    /\ fault = "none"
    /\ executed = 0
    /\ nlines = 0
    /\ line0 = [stack |-> stack, table |-> table, type_stack |-> type_stack]

\* one statement on the operand stacks of PowStacks, no name bound
PowInit ==
    /\ src = <<>>
    /\ pattern = <<>>
    /\ mode = "effect"
    /\ pc = "ready"
    /\ tokens = NoSource
    /\ statements = <<>>
    /\ ip = 0
    /\ stack \in PowStacks
    /\ table = EmptyMap
    /\ type_stack = [vars |-> EmptyMap, vals |-> TypesOf(stack), funs |-> EmptyMap]
    /\ outcome = "none"
    /\ excess = 0
    /\ code = 0
    /\ ttrace = <<>>
    /\ fault = "none"
    /\ executed = 0
    /\ nlines = 0
    /\ line0 = [stack |-> stack, table |-> table, type_stack |-> type_stack]

\* A StackPattern on its own against a type stack, in the empty environment
\* and in BoundEnv.

PatternInit ==
    /\ src = <<>>
    /\ pattern \in Patterns
    /\ mode = "pattern"
    /\ pc = "ready"
    /\ tokens = NoSource
    /\ statements = <<>>
    /\ ip = 0
    /\ stack = <<>>
    /\ table = EmptyMap
    /\ \E vals \in PatternTypeStacks, env \in EffectEnvs :
          type_stack = [vars |-> env.vars, vals |-> vals, funs |-> env.funs]
    /\ outcome = "none"
    /\ excess = 0
    /\ code = 0
    /\ ttrace = <<>>
    /\ fault = "none"
    /\ executed = 0
    /\ nlines = 0
    /\ line0 = [stack |-> stack, table |-> table, type_stack |-> type_stack]

\* StackPattern::push of the pattern
pattern_push ==
    /\ mode = "pattern"
    /\ pc = "ready"
    /\ type_stack' = StackPattern_push(pattern, type_stack)
    /\ pc' = "pushed"
    /\ ip' = 1
    /\ UNCHANGED <<src, pattern, mode, tokens, statements, stack, table, outcome, excess, code,
                   ttrace, fault, executed, nlines, line0>>

\* StackPattern::type_check of the pattern
pattern_type_check ==
    /\ mode = "pattern"
    /\ pc \in {"ready", "pushed"}
    /\ \E r \in {StackPattern_type_check(pattern, type_stack)} :
          /\ type_stack' = r.ts
          /\ outcome' = IF r.ok THEN "accepted" ELSE "type_error"
          /\ pc' = IF r.ok THEN "matched" ELSE "rejected"
    /\ UNCHANGED <<src, pattern, mode, tokens, statements, ip, stack, table, excess, code,
                   ttrace, fault, executed, nlines, line0>>

\* A call `t()` that the checker has accepted, followed statement by
\* statement through the body of t.  line0 keeps the caller's stack, table and
\* type stack; line0.table.t is the clone the body is run from.

CallInit ==
    /\ src = <<>>
    /\ pattern = <<>>
    /\ mode = "call"
    /\ pc = "ready"
    /\ tokens = NoSource
    /\ statements = <<callt>>
    /\ ip = 0
    /\ stack \in CallStacks
    /\ \E f \in CallFunctions, env \in CallTables :
          /\ table = Put(env, "t", FunctionVal(f))
          /\ type_stack = [vars |-> [x \in DOMAIN env |-> type_bit(env[x])],
                           vals |-> TypesOf(stack),
                           funs |-> Put(EmptyMap, "t", [args |-> f.args, ret |-> f.ret])]
    /\ call_type_check(callt, type_stack).ok
    /\ outcome = "accepted"
    /\ excess = 0
    /\ code = 0
    /\ ttrace = <<>>
    /\ fault = "none"
    /\ executed = 0
    /\ nlines = 0
    /\ line0 = [stack |-> stack, table |-> table, type_stack |-> type_stack]

\* ExecuteFunStatement::execute up to `f.execute(stack, table)`: take, clone,
\* put back
call_take ==
    /\ mode = "call"
    /\ pc = "ready"
    /\ LET ident == statements[1].ident
       IN IF ident \notin DOMAIN table
          THEN /\ pc' = "aborted"
               /\ code' = 101
               /\ table' = table
          ELSE /\ table' = Put(Take(table, ident), ident, table[ident])
               /\ pc' = IF table[ident].k = "Function" THEN "body" ELSE "aborted"
               /\ code' = IF table[ident].k = "Function" THEN code ELSE 101
    /\ UNCHANGED <<src, pattern, mode, tokens, statements, ip, stack, type_stack, outcome,
                   excess, ttrace, fault, executed, nlines, line0>>

\* AliceFun::execute: one turn of `for s in &self.body { s.execute(..)?; }`
call_body_step ==
    /\ mode = "call"
    /\ pc = "body"
    /\ ip < Len(line0.table[statements[1].ident].fn.body)
    /\ \E r \in {execute(line0.table[statements[1].ident].fn.body[ip + 1],
                         [stack |-> stack, table |-> table, status |-> "ok",
                          code |-> 0, fault |-> fault])} :
       LET where == AfterStatement(r)
       IN /\ stack' = r.stack
          /\ table' = r.table
          /\ fault' = r.fault
          /\ pc' = IF where = "ready" THEN "body" ELSE where
          /\ code' = ExitStatus(r, where)
    /\ ip' = ip + 1
    /\ executed' = executed + 1
    /\ UNCHANGED <<src, pattern, mode, tokens, statements, type_stack, outcome, excess, ttrace,
                   nlines, line0>>

\* AliceFun::execute: the loop is over, Ok(())
call_return ==
    /\ mode = "call"
    /\ pc = "body"
    /\ ip = Len(line0.table[statements[1].ident].fn.body)
    /\ pc' = "done"
    /\ UNCHANGED <<src, pattern, mode, tokens, statements, ip, stack, table, type_stack,
                   outcome, excess, code, ttrace, fault, executed, nlines, line0>>

\* in_pattern, custom_type_check and out_pattern of the statement s
effect_check ==
    /\ mode = "effect"
    /\ pc = "ready"
    /\ nlines = 0
    /\ \E s \in EffectAlphabet :
       \E r \in {check_rc(type_stack, <<s>>)} :
          /\ statements' = <<s>>
          /\ outcome' = IF r.ok THEN "accepted" ELSE "type_error"
          /\ type_stack' = r.ts
          /\ ttrace' = <<type_stack.vals, r.ts.vals>>
          /\ pc' = IF r.ok THEN "exec" ELSE "rejected"
    /\ nlines' = 1
    /\ UNCHANGED <<src, pattern, mode, tokens, ip, stack, table, excess, code, fault, executed, line0>>

\* Statement::execute of the checked statement
effect_execute ==
    /\ mode = "effect"
    /\ pc = "exec"
    /\ \E r \in {execute(statements[1],
                         [stack |-> stack, table |-> table, status |-> "ok",
                          code |-> 0, fault |-> fault])} :
       LET where == AfterStatement(r)
       IN /\ stack' = r.stack
          /\ table' = r.table
          /\ fault' = r.fault
          /\ pc' = IF where = "ready" THEN "done" ELSE where
          /\ code' = ExitStatus(r, where)
    /\ ip' = 1
    /\ executed' = 1
    /\ UNCHANGED <<src, pattern, mode, tokens, statements, type_stack, outcome, excess, ttrace,
                   nlines, line0>>

Next ==
    \/ main_tokenize
    \/ main_parse
    \/ main_execute
    \/ interactive_tokenize
    \/ interactive_parse
    \/ interactive_execute

Spec == Init /\ [][Next]_vars

StatementNext ==
    \/ statement_check
    \/ statement_execute

StatementSpec == StatementInit /\ [][StatementNext]_vars

EffectNext ==
    \/ effect_check
    \/ effect_execute

EffectSpec == EffectInit /\ [][EffectNext]_vars

PowSpec == PowInit /\ [][EffectNext]_vars

PatternNext ==
    \/ pattern_push
    \/ pattern_type_check

PatternSpec == PatternInit /\ [][PatternNext]_vars

CallNext ==
    \/ call_take
    \/ call_body_step
    \/ call_return

CallSpec == CallInit /\ [][CallNext]_vars

DefinitionNext ==
    \/ main_parse
    \/ main_execute

DefinitionSpec == DefinitionInit /\ [][DefinitionNext]_vars

\* main runs the parser and then the loop over the statements on one thread,
\* with nothing to wait for: a step that can be taken is taken
TerminationSpec == DefinitionInit /\ [][DefinitionNext]_vars /\ WF_vars(DefinitionNext)

TextNext ==
    \/ main_tokenize_text
    \/ main_parse_tokens
    \/ main_execute

BindingSpec == BindingInit /\ [][TextNext]_vars

LiteralSpec == LiteralInit /\ [][TextNext]_vars

\* main up to the lexer's answer
LexerNext ==
    \/ main_tokenize_text

StringSpec == StringInit /\ [][LexerNext]_vars

NumberSpec == NumberInit /\ [][LexerNext]_vars

ZeroSpec == ZeroInit /\ [][LexerNext]_vars

ShellNext ==
    \/ interactive_read_line
    \/ interactive_parse
    \/ interactive_execute

ShellSpec == ShellInit /\ [][ShellNext]_vars

ExitNext ==
    \/ main_parse
    \/ main_execute

ExitSpec == ExitInit /\ [][ExitNext]_vars

-----------------------------------------------------------------------------
(* The properties.                                                          *)

\* the type stack's vals are the run-time types of the operand stack st, slot
\* for slot, bottom to top
Mirrors(ts, st) == ts.vals = TypesOf(st)

\* the k topmost entries of q
TopSlots(q, k) == SubSeq(q, Len(q) - k + 1, Len(q))

\* how many operand slots the statement s takes its typed operands from
OperandCount(s) ==
    CASE s.op \in ArithOps \cup CmpOps -> 2
      [] s.op = "let" -> IF s.haslit THEN 0 ELSE 1
      [] OTHER -> 0

\* a driver that is past AliceParser::parse of a stream the lexer and every
\* gobble_* answered Ok for
Parsed == pc \notin {"start", "lexed"} /\ tokens.lex /\ tokens.syn = "ok"

\* the claim of C7 about one definition: the body, abstractly executed from the
\* declared argument types alone, leaves nothing (no return type) or exactly
\* the declared return type
BodyKeepsPromise(s) ==
    LET r == check_rc(StackPattern_push(s.args, TypeStack_new), s.body)
    IN /\ r.ok
       /\ IF s.ret = 0 THEN r.ts.vals = <<>> ELSE r.ts.vals = <<s.ret>>

\* C1 -- Checker soundness (batch): a program the batch checker accepted never
\* pops from an empty operand stack, never meets an operand (or a callee) of
\* another run-time type than the checker's, and is about to run an
\* arithmetic, comparison or let statement only on operand slots whose
\* run-time types are the ones the checker assigned to them.
C1_CheckerSoundness ==
    (mode = "batch" /\ outcome = "accepted") =>
        /\ fault \notin {"underflow", "mismatch"}
        /\ pc = "exec" =>
              LET k == OperandCount(statements[ip + 1])
              IN /\ Len(stack) >= k
                 /\ TopSlots(TypesOf(stack), k) = TopSlots(ttrace[ip + 1], k)

\* C2 -- Effect monotonicity: a statement whose in-pattern and custom type
\* check passed on the type stack of the operand stack, and that executed to
\* its end, leaves an operand stack whose run-time types are the type stack
\* that in_pattern, custom_type_check and out_pattern produced.
C2_EffectMonotonicity ==
    (/\ mode = "statement"
     /\ pc = "ready"
     /\ executed = 1
     /\ Mirrors(line0.type_stack, line0.stack)) => Mirrors(type_stack, stack)

\* C3 -- If net-zero: after an accepted `if BODY` executed on an operand stack
\* matching the checker's type stack, the operand stack has the depth and the
\* types it had just after the BOOL was popped, and they are the type stack the
\* checker continues with.
C3_IfNetZero ==
    (/\ mode = "statement"
     /\ pc = "ready"
     /\ executed = 1
     /\ statements[1].op = "if"
     /\ Mirrors(line0.type_stack, line0.stack)) =>
        /\ TypesOf(stack) = TypesOf(Pop(line0.stack))
        /\ TypesOf(stack) = type_stack.vals

\* C4 -- If-else parity: on a type stack with a BOOL on top, `if BODY1 else
\* BODY2` is accepted exactly when both bodies check from the stack without
\* the BOOL and end with equal vals; and whichever arm ran, the operand
\* stack's types are the type stack the checker continues with.
C4_IfElseParity ==
    (/\ mode = "statement"
     /\ nlines > 0
     /\ pc # "exec"
     /\ statements[1].op = "ifelse"
     /\ Mirrors(line0.type_stack, line0.stack)
     /\ line0.type_stack.vals # <<>>
     /\ Top(line0.type_stack.vals) = BOOL) =>
        LET from == [line0.type_stack EXCEPT !.vals = Pop(line0.type_stack.vals)]
            r1 == check_rc(from, statements[1].body)
            r2 == check_rc(from, statements[1].els)
        IN /\ (outcome = "accepted") <=> (r1.ok /\ r2.ok /\ r1.ts.vals = r2.ts.vals)
           /\ (pc = "ready" /\ executed = 1) => Mirrors(type_stack, stack)

\* C5 -- Batch acceptance: the batch check answers Ok exactly when every
\* statement checks in order from an empty type stack and the type stack is
\* empty after the last one; when n > 0 entries are left it answers the error
\* of n excess values.
C5_BatchAcceptance ==
    (mode = "batch" /\ Parsed /\ outcome # "fun_error") =>
        LET trace == TypeTrace(TypeStack_new, tokens.stmts)
            all_pass == Len(trace) = Len(tokens.stmts) + 1
            left == Len(trace[Len(trace)])
        IN /\ (outcome = "accepted") <=> (all_pass /\ left = 0)
           /\ (all_pass /\ left > 0) => (outcome = "excess" /\ excess = left)
           /\ ~all_pass => outcome = "type_error"

\* `1 1 +` with no consumer: one excess value
C5_Witness ==
    /\ mode = "batch"
    /\ tokens.stmts = <<p1, p1, add>>
    /\ outcome = "excess"
    /\ excess = 1
    /\ pc = "failed"

\* C6 -- Check-before-execute ordering: a statement is executed (and the
\* operand stack or the table changes) only when the whole program (batch) or
\* the whole line (interactive) was lexed, parsed and type-checked with
\* success; a batch run with a failed stage executes nothing and ends with an
\* error status.
C6_CheckBeforeExecute ==
    [][/\ (executed' > executed \/ stack' # stack \/ table' # table) =>
              /\ mode \in {"batch", "interactive"}
              /\ tokens.lex /\ tokens.syn = "ok"
              /\ outcome = "accepted"
              /\ statements = tokens.stmts
              /\ funs_type_check(statements)
              /\ IF mode = "batch"
                 THEN LET r == check_rc(TypeStack_new, statements)
                      IN r.ok /\ r.ts.vals = <<>>
                 ELSE check_rc(line0.type_stack, statements).ok
       /\ (mode' = "batch" /\ outcome' \notin {"none", "accepted"}) =>
              /\ executed' = 0
              /\ stack' = <<>>
              /\ pc' \in {"failed", "aborted"}
              /\ code' # 0]_vars

\* the second statement of an accepted program has run
C6_Witness == mode = "batch" /\ outcome = "accepted" /\ executed = 2

\* C7 -- Function definition check: the parser accepts a stream exactly when
\* every `fun` in it keeps its promise (body checked from the declared
\* argument types alone ends empty, or with exactly the declared return type);
\* otherwise the parse is a type error, nothing is executed and no function is
\* defined, in the table or for the checker.
C7_FunctionDefinitionCheck ==
    (mode \in {"batch", "interactive"} /\ Parsed) =>
        /\ (outcome = "fun_error") <=>
              \E i \in 1..Len(tokens.stmts) :
                  tokens.stmts[i].op = "fun" /\ ~BodyKeepsPromise(tokens.stmts[i])
        /\ outcome = "fun_error" =>
              /\ executed = 0
              /\ table = line0.table
              /\ type_stack.funs = line0.type_stack.funs

\* `fun h -> int { "s" }` is rejected
C7_Witness ==
    /\ Parsed
    /\ outcome = "fun_error"
    /\ \E i \in 1..Len(tokens.stmts) : tokens.stmts[i] = funh

\* C8 -- Function values never reach the operand stack: every value on the
\* operand stack is a String, Bool, Int, Float or Object.
C8_NoFunctionOnStack ==
    mode \in {"batch", "interactive"} =>
        \A i \in 1..Len(stack) : stack[i].k \in {"String", "Bool", "Int", "Float", "Object"}

\* C9 -- Interactive rollback: after an interactive line that failed to parse
\* or type-check nothing of it was executed, the operand stack and the table
\* are the ones before the line, and vals is the sequence of the run-time types
\* of the operand stack.
C9_InteractiveRollback ==
    (/\ mode = "interactive"
     /\ pc # "lexed"
     /\ tokens.lex
     /\ outcome \in {"parse_error", "fun_error", "type_error"}) =>
        /\ executed = 0
        /\ stack = line0.stack
        /\ table = line0.table
        /\ Mirrors(type_stack, stack)

\* C10 -- Interactive mirroring: whenever the shell is back at its prompt, vals
\* equals slot for slot the run-time types of the operand stack.
C10_InteractiveMirroring ==
    (mode = "interactive" /\ pc = "prompt") => Mirrors(type_stack, stack)

-----------------------------------------------------------------------------
(* One statement on its own (EffectSpec).                                   *)

\* a statement was checked against the type stack of line0
Checked(op) == mode = "effect" /\ nlines = 1 /\ statements[1].op = op

\* that statement was checked, accepted and executed to its end
Ran(op) == Checked(op) /\ outcome = "accepted" /\ pc = "done"

\* the k-th slot of q counted from the top, 1 being the top
FromTop(q, k) == q[Len(q) - k + 1]

\* q without its k topmost slots
Below(q, k) == SubSeq(q, 1, Len(q) - k)

\* C11 -- Call type check: `f()` is rejected when f is not in the function
\* environment; otherwise it is accepted exactly when the type stack holds a
\* matching slot for every slot of f's argument pattern, those slots are then
\* removed, the return type is pushed iff it is non-zero, and the function
\* (and variable) environment is the one before the check.
C11_CallTypeCheck ==
    Checked("call") =>
        LET before == line0.type_stack
            v == before.vals
            f == statements[1].ident
        IN /\ type_stack.funs = before.funs
           /\ type_stack.vars = before.vars
           /\ IF f \notin DOMAIN before.funs THEN outcome = "type_error"
              ELSE LET sig == before.funs[f]
                       n == Len(sig.args)
                       matches ==
                           /\ n <= Len(v)
                           /\ \A i \in 1..n :
                                 BitAnd(FromTop(v, i), sig.args[i]) = FromTop(v, i)
                   IN /\ (outcome = "accepted") <=> matches
                      /\ matches =>
                            type_stack.vals =
                                Below(v, n) \o (IF sig.ret # 0 THEN <<sig.ret>> ELSE <<>>)

\* `g()` of `fun g : string, int -> string` on [.., INT, STRING]: both slots
\* go, STRING is pushed; `f()` of `fun f : int` pushes nothing
C11_Witness ==
    /\ Checked("call")
    /\ outcome = "accepted"
    /\ statements[1] = callg
    /\ line0.type_stack.vals = <<BOOL, INT, STRING_BIT>>
    /\ type_stack.vals = <<BOOL, STRING_BIT>>

\* C12 -- ANY accepts every value type: the ANY in-pattern slot of println,
\* print and drop accepts whatever type bitmask of a run-time value (STRING,
\* BOOL, INT, FLOAT, an object tag OBJECT | (hash << 5)) is on top of the type
\* stack.
C12_AnyAcceptsEveryValueType ==
    (/\ mode = "effect"
     /\ nlines = 1
     /\ statements[1].op \in {"println", "print", "drop"}
     /\ line0.type_stack.vals # <<>>
     /\ Top(line0.type_stack.vals) \in
            {STRING_BIT, BOOL, INT, FLOAT} \cup {ObjectTag(h) : h \in 0..1})
        => outcome = "accepted"

\* the operand pairs <<second from top, top, result>> the claims list
NumericPairs ==
    {<<INT, INT, INT>>, <<FLOAT, FLOAT, FLOAT>>, <<INT, FLOAT, FLOAT>>, <<FLOAT, INT, FLOAT>>}

\* the check of a two-operand statement accepts exactly the pairs of `pairs`
\* and replaces the two operands by the result of the pair
AcceptsExactly(pairs) ==
    LET v == line0.type_stack.vals
    IN IF Len(v) < 2 THEN outcome = "type_error"
       ELSE LET hit == {p \in pairs : p[1] = FromTop(v, 2) /\ p[2] = FromTop(v, 1)}
            IN /\ (outcome = "accepted") <=> hit # {}
               /\ \A p \in hit : type_stack.vals = Append(Below(v, 2), p[3])

\* C13 -- Arithmetic typing: the check of `+` needs two entries, accepts
\* exactly (INT,INT)->INT, (FLOAT,FLOAT)->FLOAT, (INT,FLOAT) and
\* (FLOAT,INT)->FLOAT and (STRING,STRING)->STRING, and replaces the two
\* operands by the result; `-`, `*`, `/` and `%` accept the same pairs
\* without (STRING,STRING).
C13_ArithmeticTyping ==
    /\ Checked("add") =>
           AcceptsExactly(NumericPairs \cup {<<STRING_BIT, STRING_BIT, STRING_BIT>>})
    /\ \A op \in {"sub", "mul", "div", "mod"} : Checked(op) => AcceptsExactly(NumericPairs)

C13_Witness ==
    /\ Checked("sub")
    /\ outcome = "accepted"
    /\ line0.type_stack.vals = <<STRING_BIT, INT, FLOAT>>
    /\ type_stack.vals = <<STRING_BIT, FLOAT>>

\* C14 -- Comparison typing: the check of `<`, `<=`, `>` and `>=` succeeds
\* only on a type stack of at least two entries whose two operands are both
\* INT or both FLOAT, and then replaces them by BOOL; so the execution of an
\* accepted comparison never meets operands of differing or non-numeric types.
C14_ComparisonTyping ==
    \A op \in CmpOps :
        (Checked(op) /\ outcome = "accepted") =>
            LET v == line0.type_stack.vals
            IN /\ Len(v) >= 2
               /\ <<FromTop(v, 2), FromTop(v, 1)>> \in {<<INT, INT>>, <<FLOAT, FLOAT>>}
               /\ type_stack.vals = Append(Below(v, 2), BOOL)
               /\ pc # "aborted"

\* C15 -- Power typing: the check of `**` accepts (INT base, INT exponent)
\* -> INT, (FLOAT, FLOAT) -> FLOAT and (FLOAT base, INT exponent) -> FLOAT,
\* and rejects (INT base, FLOAT exponent) and every pair with a non-numeric
\* type.
C15_PowerTyping ==
    Checked("pow") =>
        AcceptsExactly({<<INT, INT, INT>>, <<FLOAT, FLOAT, FLOAT>>, <<FLOAT, INT, FLOAT>>})

C15_Witness ==
    /\ Checked("pow")
    /\ outcome = "type_error"
    /\ line0.type_stack.vals = <<BOOL, INT, FLOAT>>

\* C16 -- Equality typing: the check of `==` succeeds if and only if the type
\* stack has at least two entries and the two top bitmasks are equal, and
\* then replaces them with BOOL; executing it pops two values and pushes
\* exactly one Bool, true iff the two values are equal.
C16_EqualityTyping ==
    /\ Checked("eqs") =>
           LET v == line0.type_stack.vals
               same == Len(v) >= 2 /\ FromTop(v, 1) = FromTop(v, 2)
           IN /\ (outcome = "accepted") <=> same
              /\ same => type_stack.vals = Append(Below(v, 2), BOOL)
    /\ Ran("eqs") =>
           LET q == line0.stack
           IN /\ Len(stack) = Len(q) - 1
              /\ Below(stack, 1) = Below(q, 2)
              /\ FromTop(stack, 1).k = "Bool"
              /\ (FromTop(stack, 1).n = 1) <=> (FromTop(q, 1) = FromTop(q, 2))
              /\ table = line0.table

C16_Witness ==
    /\ Ran("eqs")
    /\ line0.stack = <<StringVal(<<"s">>), IntVal(1), IntVal(2)>>
    /\ stack = <<StringVal(<<"s">>), BoolVal(FALSE)>>

\* the depth a shuffler needs
ShuffleDepth(op) ==
    CASE op = "swap" -> 2 [] op = "dup" -> 1 [] op = "over" -> 2 [] op = "rot" -> 3

\* (a b -> b a), (a -> a a), (a b -> a b a), (a b c -> b c a) on the top of q
Rearranged(op, q) ==
    CASE op = "swap" -> Below(q, 2) \o <<FromTop(q, 1), FromTop(q, 2)>>
      [] op = "dup" -> Below(q, 1) \o <<FromTop(q, 1), FromTop(q, 1)>>
      [] op = "over" -> Below(q, 2) \o <<FromTop(q, 2), FromTop(q, 1), FromTop(q, 2)>>
      [] op = "rot" -> Below(q, 3) \o <<FromTop(q, 2), FromTop(q, 1), FromTop(q, 3)>>

\* C17 -- Stack shufflers: swap, dup, over and rot fail the type check on a
\* type stack shallower than 2, 1, 2 and 3 entries, and otherwise rearrange
\* the top as (a b -> b a), (a -> a a), (a b -> a b a), (a b c -> b c a) and
\* leave every deeper slot unchanged; the executor rearranges the operand
\* stack values the same way.
C17_StackShufflers ==
    \A op \in {"swap", "dup", "over", "rot"} :
        /\ Checked(op) =>
               LET v == line0.type_stack.vals
               IN IF Len(v) < ShuffleDepth(op) THEN outcome = "type_error"
                  ELSE outcome = "accepted" /\ type_stack.vals = Rearranged(op, v)
        /\ Ran(op) => stack = Rearranged(op, line0.stack) /\ table = line0.table

C17_Witness ==
    /\ Ran("rot")
    /\ line0.stack = <<IntVal(1), FloatVal(3), StringVal(<<"s">>)>>
    /\ stack = <<FloatVal(3), StringVal(<<"s">>), IntVal(1)>>
    /\ type_stack.vals = <<FLOAT, STRING_BIT, INT>>

\* C18 -- Let typing: checking `let x : T` records x -> T in the variable
\* environment and pops one type-stack slot, which must match T; when the
\* let carries a default literal nothing is popped from the type stack.
C18_LetTyping ==
    Checked("let") =>
        LET s == statements[1]
            before == line0.type_stack
            v == before.vals
            recorded == type_stack.vars = Put(before.vars, s.ident, s.ty)
        IN IF s.haslit
           THEN outcome = "accepted" /\ recorded /\ type_stack.vals = v
           ELSE LET matches == v # <<>> /\ BitAnd(Top(v), s.ty) = Top(v)
                IN /\ (outcome = "accepted") <=> matches
                   /\ matches => recorded /\ type_stack.vals = Pop(v)

\* the table is the table `before` with x bound to val and nothing else changed
Rebound(before, x, val) ==
    /\ DOMAIN table = DOMAIN before \cup {x}
    /\ table[x] = val
    /\ \A k \in DOMAIN before \ {x} : table[k] = before[k]

\* C19 -- Let execution: executing `let x` without a default removes exactly
\* the top operand-stack value and binds it to x in the table, replacing an
\* earlier binding of x and leaving all other bindings unchanged; executing
\* `let x` with a default literal binds the literal and leaves the operand
\* stack unchanged.
C19_LetExecution ==
    Ran("let") =>
        LET s == statements[1]
        IN IF s.haslit
           THEN stack = line0.stack /\ Rebound(line0.table, s.ident, s.val)
           ELSE /\ line0.stack # <<>>
                /\ stack = Below(line0.stack, 1)
                /\ Rebound(line0.table, s.ident, FromTop(line0.stack, 1))

C19_Witness ==
    /\ Ran("let")
    /\ ~statements[1].haslit
    /\ line0.stack = <<IntVal(2), StringVal(<<"s">>)>>
    /\ "x" \in DOMAIN line0.table
    /\ line0.table["x"] = IntVal(1)
    /\ table["x"] = StringVal(<<"s">>)
    /\ stack = <<IntVal(2)>>

\* the let with a default literal has run and bound its literal
C19_LiteralRan ==
    /\ Ran("let")
    /\ statements[1].haslit
    /\ "x" \in DOMAIN table
    /\ table["x"] = IntVal(2)
    /\ stack = line0.stack

\* C20 -- Variable reference: checking a bare identifier fails if and only if
\* the identifier is not in the checker's variable environment, and otherwise
\* pushes the bitmask recorded for it; executing it pushes a copy of the
\* table entry and leaves the variable table unchanged.
C20_VariableReference ==
    /\ Checked("ref") =>
           LET before == line0.type_stack
               x == statements[1].ident
           IN /\ (outcome = "type_error") <=> (x \notin DOMAIN before.vars)
              /\ type_stack.vars = before.vars
              /\ IF x \in DOMAIN before.vars
                 THEN outcome = "accepted" /\ type_stack.vals = Append(before.vals, before.vars[x])
                 ELSE type_stack.vals = before.vals
    /\ Ran("ref") =>
           LET x == statements[1].ident
           IN /\ x \in DOMAIN line0.table
              /\ stack = Append(line0.stack, line0.table[x])
              /\ table = line0.table

C20_Witness ==
    /\ Ran("ref")
    /\ statements[1] = refx
    /\ line0.stack = <<StringVal(<<"s">>)>>
    /\ stack = <<StringVal(<<"s">>), IntVal(1)>>
    /\ type_stack.vals = <<STRING_BIT, INT>>
    /\ table = line0.table

\* a reference to an identifier that was never bound is a type error
C20_UnboundRejected ==
    /\ Checked("ref")
    /\ statements[1] = refy
    /\ "x" \in DOMAIN line0.type_stack.vars
    /\ outcome = "type_error"

-----------------------------------------------------------------------------
(* Programs of function definitions (DefinitionSpec)                        *)

\* the statement body[i] calls a function no earlier statement of the body
\* defined, or reads a variable no earlier statement of the body bound
ReachesOutside(body, i) ==
    \/ /\ body[i].op = "call"
       /\ \A j \in 1..(i - 1) : ~(body[j].op = "fun" /\ body[j].ident = body[i].ident)
    \/ /\ body[i].op = "ref"
       /\ \A j \in 1..(i - 1) : ~(body[j].op = "let" /\ body[j].ident = body[i].ident)

C21_RecursionRejected ==
    /\ mode = "batch"
    /\ Parsed
    /\ tokens.stmts = <<funr>>
    /\ outcome = "fun_error"

\* a body that defines a function and a variable of its own may use them
C21_InnerNamesAccepted ==
    /\ mode = "batch"
    /\ tokens.stmts = <<funn, funw, calln>>
    /\ outcome = "accepted"
    /\ pc = "done"

-----------------------------------------------------------------------------
(* Program texts (BindingSpec, ...)                                         *)

\* the text holds `let ID` or `fun ID` with a keyword for ID
BindsKeyword ==
    \E i \in 1..(Len(tokens.toks) - 1) :
        /\ tokens.toks[i] \in {IdentOrKeyw("let"), IdentOrKeyw("fun")}
        /\ tokens.toks[i + 1].t = "IdentOrKeyw"
        /\ tokens.toks[i + 1].text \in Keywords

\* C22 -- Keywords cannot be bound: a `let` or a `fun` statement whose
\* identifier is a keyword (let, fun, if, else, true, false) is rejected with
\* a parse error and creates no binding.
C22_KeywordsCannotBeBound ==
    (mode = "batch" /\ pc \notin {"start", "lexed"} /\ tokens.lex /\ BindsKeyword) =>
        /\ outcome = "parse_error"
        /\ pc = "failed"
        /\ table = EmptyMap

-----------------------------------------------------------------------------
(* Programs that exit (ExitSpec)                                            *)

\* what the checker asks of the exits of a parsed program: `exit` needs INT
\* on top of the type stack and takes it, `okexit` needs nothing
ExitRequirement ==
    (mode = "batch" /\ Parsed /\ outcome # "fun_error") =>
        LET trace == TypeTrace(TypeStack_new, tokens.stmts)
        IN \A i \in 1..Len(tokens.stmts) :
               /\ (Len(trace) >= i /\ tokens.stmts[i].op = "exit") =>
                      IF trace[i] # <<>> /\ Top(trace[i]) = INT
                      THEN Len(trace) > i /\ trace[i + 1] = Pop(trace[i])
                      ELSE Len(trace) = i /\ outcome = "type_error"
               /\ (Len(trace) >= i /\ tokens.stmts[i].op = "okexit") =>
                      Len(trace) > i /\ trace[i + 1] = trace[i]

\* C23 -- Exit: `exit` requires INT on top of the type stack and its
\* execution ends the process with that integer as exit code; `okexit`
\* requires nothing and ends the process with code 0; once either has
\* executed, no later statement of the program, the rest of an enclosing
\* function body included, is executed.
C23_Exit ==
    [][/\ ExitRequirement'
       /\ pc # "exited"
       /\ (pc = "exec" /\ statements[ip + 1].op = "exit") =>
              /\ pc' = "exited"
              /\ code' = Top(stack).n
              /\ stack' = Pop(stack)
              /\ table' = table
       /\ (pc = "exec" /\ statements[ip + 1].op = "okexit") =>
              /\ pc' = "exited"
              /\ code' = 0
              /\ stack' = stack
              /\ table' = table
       /\ (pc = "exec" /\ statements[ip + 1] = calle) =>
              /\ pc' = "exited"
              /\ code' = 1
              /\ stack' = stack
              /\ table' = table
       /\ (pc = "exec" /\ statements[ip + 1] = callo) =>
              /\ pc' = "exited"
              /\ code' = 0
              /\ stack' = stack
              /\ table' = table]_vars

\* `3 exit fun e ..`: the process has ended with status 3 and e is not defined
C23_Witness ==
    /\ mode = "batch"
    /\ statements = <<p3, St("exit"), fune>>
    /\ pc = "exited"
    /\ code = 3
    /\ executed = 2
    /\ table = EmptyMap

\* `fun e { 1 exit 3 let x : int } e()`: the rest of the body has not run
C23_ExitInBody ==
    /\ mode = "batch"
    /\ statements = <<fune, calle>>
    /\ pc = "exited"
    /\ code = 1
    /\ stack = <<>>
    /\ "x" \notin DOMAIN table

\* `"s" exit` is rejected
C23_StringRejected ==
    /\ mode = "batch"
    /\ tokens.stmts = <<ps, St("exit")>>
    /\ outcome = "type_error"

\* main is past the parser
PastParser == mode = "batch" /\ pc \notin {"start", "lexed"}

\* the program starts with the push of one value of type T, and once that
\* push has run the value is on the stack
PushedOfType(T) ==
    /\ tokens.lex
    /\ outcome \notin {"parse_error", "parse_panic"}
    /\ statements # <<>>
    /\ statements[1].op = "push"
    /\ type_bit(statements[1].val) = T
    /\ ttrace[2] = <<T>>
    /\ ip = 1 => (stack # <<>> /\ type_bit(Top(stack)) = T)

\* the coercions of the number literals of the set numbers
LiteralCoercion(numbers) ==
    \A n \in numbers :
        /\ \A c \in CoercionTypes :
               (PastParser /\ src \in {Spell(<<n, AtWord(c[1]), W_drop>>),
                                       Spell(<<n \o AtWord(c[1]), W_drop>>)}) =>
                   PushedOfType(c[2])
        /\ (PastParser /\ src = Spell(<<n, W_drop>>)) =>
               PushedOfType(IF \E j \in 1..Len(n) : n[j] = "." THEN FLOAT ELSE INT)
        /\ \A o \in OtherTargets, rest \in LiteralRests :
               (PastParser /\ src = Spell(<<n>> \o o \o rest)) =>
                   /\ outcome = "parse_error"
                   /\ pc = "failed"
                   /\ statements = <<>>

\* C24 -- Literal coercion: a number literal followed by `@T` with T in
\* {int, float, string} produces a push whose value has run-time type T and
\* type-stack bitmask T; without `@` it pushes Int when the literal contained
\* no `.` and Float when it did; `@` followed by any other type name or by a
\* token that is no type is a parse error.
C24_LiteralCoercion == LiteralCoercion(NumberWords)

-----------------------------------------------------------------------------
(* The interactive shell on lines that fail when run (ShellSpec)            *)

\* C25 -- Interactive error propagation: in interactive mode every run-time
\* failure of a statement (pop from an empty stack, integer division by zero,
\* negative integer exponent, failed stdin read) is reported and the shell
\* goes on to the next prompt; the session is never ended by a run-time
\* failure, only by exit or okexit.
C25_ShellSurvivesFailures ==
    mode = "interactive" =>
        /\ pc # "aborted"
        /\ pc = "exited" => (ip > 0 /\ statements[ip].op \in {"exit", "okexit"})

-----------------------------------------------------------------------------
(* `**` on integers of either sign (PowSpec)                                *)

\* a to the power b, b >= 0
Power(a, b) == IF b = 0 THEN 1 ELSE a ^ b

\* C26 -- Integer power: `**` on (Int a, Int b) is accepted by the type
\* checker whatever the sign of b, with INT as its result type; executed with
\* b >= 0 it replaces the two operands by Int a^b, executed with b < 0 it
\* aborts the execution and pushes no value.
C26_IntegerPower ==
    (/\ Checked("pow")
     /\ Len(line0.stack) >= 2
     /\ FromTop(line0.stack, 1).k = "Int"
     /\ FromTop(line0.stack, 2).k = "Int") =>
        LET a == FromTop(line0.stack, 2).n
            b == FromTop(line0.stack, 1).n
        IN /\ outcome = "accepted"
           /\ type_stack.vals = Append(Below(line0.type_stack.vals, 2), INT)
           /\ pc \in {"exec", "done", "aborted"}
           /\ pc = "exec" => stack = line0.stack
           /\ pc = "done" =>
                  /\ b >= 0
                  /\ stack = Append(Below(line0.stack, 2), IntVal(Power(a, b)))
           /\ pc = "aborted" =>
                  /\ b < 0
                  /\ stack = Below(line0.stack, 2)
                  /\ code = 101

\* `2 3 **` has left 8
C26_Witness ==
    /\ Ran("pow")
    /\ line0.stack = <<IntVal(1), IntVal(2), IntVal(3)>>
    /\ stack = <<IntVal(1), IntVal(8)>>

\* `2 -1 **` was accepted and has aborted
C26_NegativeExponent ==
    /\ Checked("pow")
    /\ line0.stack = <<IntVal(2), IntVal(0 - 1)>>
    /\ outcome = "accepted"
    /\ pc = "aborted"
    /\ stack = <<>>

-----------------------------------------------------------------------------
(* Texts that open a string literal (StringSpec)                            *)

\* the number of backslashes that stand directly before position i of s
Backslashes(s, i) ==
    CHOOSE k \in 0..(i - 1) :
        /\ \A j \in 1..k : s[i - j] = "\\"
        /\ k = i - 1 \/ s[i - k - 1] # "\\"

\* the character at i is the second half of an escape
Escaped(s, i) == Backslashes(s, i) % 2 = 1

\* the characters an escape may end with, and what each stands for
Unescaped(c) ==
    CASE c = "n" -> "\n"
      [] c = "r" -> "\r"
      [] c = "t" -> "\t"
      [] OTHER -> c

\* where the literal opened at s[1] stops: at an unescaped matching quote or
\* at an escape that is none of \n \r \t \\ \" \'
StringStops(s) ==
    {i \in 2..Len(s) :
        \/ s[i] = s[1] /\ ~Escaped(s, i)
        \/ Escaped(s, i) /\ s[i] \notin {"n", "r", "t", "\\", "\"", "'"}}

\* the characters of the literal that closes at position close
StringBody(s, close) ==
    LET kept == SelectSeq([j \in 1..(close - 2) |-> j + 1],
                          LAMBDA i : ~(s[i] = "\\" /\ ~Escaped(s, i)))
    IN [k \in 1..Len(kept) |->
           IF Escaped(s, kept[k]) THEN Unescaped(s[kept[k]]) ELSE s[kept[k]]]

\* C27 -- String lexing: inside a string literal opened by `"` or `'` the
\* escapes \n, \r, \t, \\, \" and \' each give the one character they stand
\* for, any other escape is an IllegalEscapeSequence error, an unescaped
\* matching quote ends the token (what follows is lexed on its own), and a
\* literal with no closing matching quote before the end of the input is a
\* MissingDelimiter error.
C27_StringLexing ==
    (mode = "batch" /\ pc # "start" /\ src # <<>> /\ src[1] \in {"\"", "'"}) =>
        IF StringStops(src) = {}
        THEN ~tokens.lex /\ tokens.err = "MissingDelimeter"
        ELSE LET stop == CHOOSE i \in StringStops(src) : \A j \in StringStops(src) : i <= j
             IN IF Escaped(src, stop)
                THEN ~tokens.lex /\ tokens.err = "IllegalEscapeSequence"
                ELSE LET rest == tokenize(SubSeq(src, stop + 1, Len(src)))
                     IN /\ tokens.lex = rest.ok
                        /\ tokens.err = rest.err
                        /\ tokens.lex =>
                               tokens.toks = <<StringTok(StringBody(src, stop))>> \o rest.toks

\* `'\n"'` is one token: a newline and a double quote
C27_Witness ==
    /\ src = <<"'", "\\", "n", "\"", "'">>
    /\ pc = "lexed"
    /\ tokens.toks = <<StringTok(<<"\n", "\"">>)>>

\* `"\a"` is an illegal escape sequence
C27_IllegalEscape ==
    /\ src = <<"\"", "\\", "a", "\"">>
    /\ pc = "failed"
    /\ tokens.err = "IllegalEscapeSequence"

\* `"a\"` has no closing quote
C27_Unclosed ==
    /\ src = <<"\"", "a", "\\", "\"">>
    /\ pc = "failed"
    /\ tokens.err = "MissingDelimeter"

-----------------------------------------------------------------------------
(* Texts that open a number literal (NumberSpec)                            *)

\* the text without its underscores
Plain(s) == SelectSeq(s, LAMBDA c : c # "_")

\* the digits d read in the given base, by place values
RECURSIVE PlaceValue(_, _)
PlaceValue(d, base) ==
    IF d = <<>> THEN 0
    ELSE (CHOOSE n \in 0..15 : HexDigits[n + 1] = Head(d)) * base ^ (Len(d) - 1)
         + PlaceValue(Tail(d), base)

\* every character of d is a digit of the base
DigitsOf(d, base) == \A j \in 1..Len(d) : \E n \in 1..base : HexDigits[n] = d[j]

\* the one Number token of the decimal literal p, p without underscores and
\* with at most one `.`
DecimalToken(p) ==
    LET dots == {j \in 1..Len(p) : p[j] = "."}
        digits == SelectSeq(p, LAMBDA c : c # ".")
    IN NumberTok(PlaceValue(digits, 10),
                 IF dots = {} THEN 0 ELSE Len(p) - (CHOOSE j \in dots : TRUE),
                 dots # {})

\* the lexer has answered a NumberFormatError
NumberRejected == ~tokens.lex /\ tokens.err = "NumberFormatErr"

\* what the lexer has to answer for the number literals among the texts words
NumberLexing(words) ==
    (mode = "batch" /\ pc # "start" /\ src \in words) =>
        LET p == Plain(src)
        IN IF Len(src) >= 2 /\ src[1] = "0" /\ src[2] \in {"x", "b"}
           THEN LET base == IF src[2] = "x" THEN 16 ELSE 2
                    r == Plain(SubSeq(src, 3, Len(src)))
                IN IF DigitsOf(r, base)
                   THEN tokens.lex /\ tokens.toks = <<NumberTok(PlaceValue(r, base), 0, FALSE)>>
                   ELSE NumberRejected
           ELSE IF /\ \A j \in 1..Len(src) : src[j] \in {"0", "1", "_", "."}
                   /\ ~(Len(p) >= 2 /\ p[1] = "0" /\ p[2] \in {"0", "1"})
           THEN IF Cardinality({j \in 1..Len(p) : p[j] = "."}) >= 2
                THEN NumberRejected
                ELSE tokens.lex /\ tokens.toks = <<DecimalToken(p)>>
           ELSE TRUE

\* C28 -- Number lexing: in every number literal underscores are discarded
\* without changing the literal's value, directly after a leading `0`
\* included; a single `.` makes a decimal literal fractional; a second `.` is
\* a NumberFormatError; after the prefixes `0x` and `0b` only digits of radix
\* 16 and 2 are accepted.  (Decimal literals that go on with a digit after a
\* leading `0` are left open.)
C28_NumberLexing == NumberLexing(NumberTexts)

-----------------------------------------------------------------------------
(* A pattern against a type stack (PatternSpec)                             *)

\* the slots of the pattern p, counted from 1, that the type stack v does not
\* satisfy when slot i meets the i-th entry from the top
Unmatched(p, v) ==
    {i \in 1..Len(p) : i > Len(v) \/ BitAnd(FromTop(v, i), p[i]) # FromTop(v, i)}

\* C29 -- In-pattern matching rule: matching an in-pattern pops one
\* type-stack entry per pattern slot; a slot matches iff (actual & required)
\* = actual; the match fails with a type error as soon as a slot mismatches
\* or the stack has run out of entries; on success exactly len(pattern)
\* entries have been removed and nothing else of the checker state has
\* changed.
C29_InPatternMatching ==
    (mode = "pattern" /\ ip = 0 /\ pc \in {"matched", "rejected"}) =>
        LET v == line0.type_stack.vals
            bad == Unmatched(pattern, v)
        IN /\ type_stack.vars = line0.type_stack.vars
           /\ type_stack.funs = line0.type_stack.funs
           /\ IF bad = {}
              THEN /\ pc = "matched"
                   /\ outcome = "accepted"
                   /\ type_stack.vals = Below(v, Len(pattern))
              ELSE LET first == CHOOSE i \in bad : \A j \in bad : i <= j
                   IN /\ pc = "rejected"
                      /\ outcome = "type_error"
                      /\ type_stack.vals = Below(v, IF first > Len(v) THEN Len(v) ELSE first)

\* [int, any] has matched a stack with a string under an int
C29_Witness ==
    /\ mode = "pattern"
    /\ ip = 0
    /\ pc = "matched"
    /\ pattern = <<INT, ANY>>
    /\ line0.type_stack.vals = <<ANY, STRING_BIT, INT>>
    /\ type_stack.vals = <<ANY>>
    /\ type_stack.vars # EmptyMap

\* [int, int] has failed at its second slot on a stack with one entry
C29_RunsOut ==
    /\ mode = "pattern"
    /\ ip = 0
    /\ pc = "rejected"
    /\ pattern = <<INT, INT>>
    /\ line0.type_stack.vals = <<INT>>
    /\ type_stack.vals = <<>>

\* C30 -- Pattern round trip: a pattern is ordered bottom-to-top both when
\* it is produced and when it is consumed, so for every pattern p of concrete
\* types and every type stack S, pushing p onto S and then matching p as an
\* in-pattern succeeds and yields S again.
C30_PatternRoundTrip ==
    (/\ mode = "pattern"
     /\ ip = 1
     /\ pc \in {"matched", "rejected"}
     /\ \A i \in 1..Len(pattern) : pattern[i] \in {STRING_BIT, INT}) =>
        /\ pc = "matched"
        /\ type_stack = line0.type_stack

-----------------------------------------------------------------------------
(* Calls (EffectSpec, CallSpec)                                             *)

\* the type stack v holds, on top, the arguments args laid out as
\* StackPattern::push lays them out for the check of the body: the last
\* argument on top
ArrangedAsBody(v, args) ==
    /\ Len(args) <= Len(v)
    /\ \A i \in 1..Len(args) :
          BitAnd(FromTop(v, i), args[Len(args) + 1 - i]) = FromTop(v, i)

\* C31 -- Call argument order: for a function declared with argument types
\* T1, ..., Tn a call is accepted exactly when the caller's top n type-stack
\* slots are arranged as the body's initial checker stack was (the same type
\* at the same depth), so the body runs on argument values whose types, slot
\* by slot, are the ones it was checked against.
C31_CallArgumentOrder ==
    (Checked("call") /\ statements[1].ident \in DOMAIN line0.type_stack.funs) =>
        LET sig == line0.type_stack.funs[statements[1].ident]
        IN /\ (outcome = "accepted") <=> ArrangedAsBody(line0.type_stack.vals, sig.args)
           /\ outcome = "accepted" => ArrangedAsBody(TypesOf(line0.stack), sig.args)

\* C32 -- Call execution and the table: while a function's body is
\* executing, the function's own binding is absent from the variable table,
\* and when the call returns the binding is present again under the same
\* identifier with the same function value.
C32_CallAndTable ==
    mode = "call" =>
        LET ident == statements[1].ident
        IN /\ pc = "body" => ident \notin DOMAIN table
           /\ pc = "done" => (ident \in DOMAIN table /\ table[ident] = line0.table[ident])

\* the body of the function the call has run holds the statement named op
BodyHolds(op) ==
    \E i \in 1..Len(line0.table[statements[1].ident].fn.body) :
        line0.table[statements[1].ident].fn.body[i].op = op

\* after the call, the caller's values beneath the arguments are as they
\* were and at most one value stands above them
FrameKept ==
    LET f == line0.table[statements[1].ident].fn
        beneath == Below(line0.stack, Len(f.args))
    IN /\ Len(stack) >= Len(beneath)
       /\ SubSeq(stack, 1, Len(beneath)) = beneath
       /\ Len(stack) <= Len(beneath) + 1
       /\ (Len(stack) = Len(beneath) + 1) <=> (f.ret # 0)

\* C33 -- Call frame: executing a call to an accepted function changes only
\* the operand-stack slots holding its arguments, replaced by at most one
\* return value; every operand-stack value beneath the arguments is still
\* present, unchanged and in the same order, after the call returns, for
\* every accepted body, bodies that use `clear` included.
C33_CallFrame == (mode = "call" /\ pc = "done") => FrameKept

-----------------------------------------------------------------------------
(* Bindings at run time (StatementSpec, CallSpec, Spec).                    *)

\* the table binds the identifier of s to a value of the kind s expects
BoundAsExpected(s) ==
    /\ s.ident \in DOMAIN table
    /\ (table[s.ident].k = "Function") <=> (s.op = "call")

\* C34 -- Bound when used: when an accepted variable reference or function
\* call is about to execute, its identifier is bound in the table, to a
\* non-function value for a reference and to a Function for a call, and no
\* reference or call inside a body met an unbound identifier; the binding
\* `let` may sit in the body of an `if` or in one arm of an `if-else`.
C34_BoundWhenUsed ==
    (mode = "statement" /\ outcome = "accepted") =>
        /\ fault # "unbound"
        /\ (pc = "exec" /\ statements[1].op \in {"ref", "call"}) =>
              BoundAsExpected(statements[1])

\* C35 -- Variable type agreement: when an accepted call has returned, every
\* variable the checker has recorded for the caller is bound in the table to
\* a value whose run-time type is the recorded bitmask, so that a reference
\* executed next pushes the type the checker pushed; a `let` in the body of
\* the called function changes no binding of the caller.
C35_VariableTypeAgreement ==
    (mode = "call" /\ pc = "done") =>
        \A x \in DOMAIN line0.type_stack.vars :
            /\ x \in DOMAIN table
            /\ type_bit(table[x]) = line0.type_stack.vars[x]

\* C36 -- Interactive environment rollback: after an interactive line the type
\* checker rejected, vars and funs are the ones before the line; and whenever
\* the shell is back at its prompt the identifiers in vars or funs are exactly
\* the identifiers bound in the table.
C36_EnvironmentRollback ==
    mode = "interactive" =>
        /\ (pc # "lexed" /\ tokens.lex /\ outcome = "type_error") =>
              /\ type_stack.vars = line0.type_stack.vars
              /\ type_stack.funs = line0.type_stack.funs
        /\ pc = "prompt" =>
              (DOMAIN type_stack.vars \cup DOMAIN type_stack.funs) = DOMAIN table

-----------------------------------------------------------------------------
(* Termination (TerminationSpec).                                           *)

\* the process has ended: main returned, panicked or called exit
Terminated == pc \in {"done", "failed", "aborted", "exited"}

\* the step executes the next top-level statement, once
ExecutesNext ==
    /\ ip' = ip + 1
    /\ executed' = executed + 1
    /\ ip' <= Len(statements)

\* the step is one run of the body of the function the call names, seen from
\* the state with the function put back
RunsBodyOnce ==
    LET s == statements[ip + 1]
    IN (s.op = "call" /\ s.ident \in DOMAIN table /\ table[s.ident].k = "Function") =>
          LET r == execute_all(table[s.ident].fn.body,
                               [stack |-> stack, table |-> table, status |-> "ok",
                                code |-> 0, fault |-> fault])
          IN /\ stack' = r.stack
             /\ table' = r.table

\* C37 -- Termination: parsing and checking a program ends, and the execution
\* of an accepted batch program ends after every top-level statement executed
\* at most once, in order, a call statement being one run of the body of the
\* function it names (calls inside bodies included).
C37_Termination ==
    /\ [][(mode = "batch" /\ pc = "exec") => (ExecutesNext /\ RunsBodyOnce)]_vars
    /\ <>Terminated

\* an accepted program whose function n calls, in its body, the function m it
\* defined there, ran to its end with n called twice
C37_Witness ==
    /\ mode = "batch"
    /\ pc = "done"
    /\ outcome = "accepted"
    /\ statements = <<funn, calln, calln>>
    /\ executed = 3
    /\ "m" \in DOMAIN table

\* C37 as stated: accepted programs contain no nested calls, that is no
\* function body of an accepted program holds a call statement
C37_NoNestedCalls ==
    (mode = "batch" /\ outcome = "accepted") =>
        \A i \in 1..Len(statements) :
            statements[i].op = "fun" =>
                \A k \in 1..Len(statements[i].body) : statements[i].body[k].op # "call"

-----------------------------------------------------------------------------
(* The entries of the type stack (DefinitionSpec).                          *)

\* t is STRING, BOOL, INT, FLOAT or an object tag, or ANY where any_ok
WellFormedEntry(t, any_ok) ==
    \/ t \in {STRING_BIT, BOOL, INT, FLOAT}
    \/ (t > 0 /\ t % 32 = OBJECT)
    \/ (any_ok /\ t = ANY)

\* every entry of every type stack of the trace is well formed
WellFormedTrace(trace, any_ok) ==
    \A i \in 1..Len(trace) :
        \A j \in 1..Len(trace[i]) : WellFormedEntry(trace[i][j], any_ok)

\* the type stacks the checker goes through in the body of f
BodyTrace(f) == TypeTrace(StackPattern_push(f.args, TypeStack_new), f.body)

DeclaresAny(f) == \E k \in 1..Len(f.args) : f.args[k] = ANY

\* the type stacks of every function body of stmts, nested ones included
RECURSIVE WellFormedBodies(_)
WellFormedBodies(stmts) ==
    \A i \in 1..Len(stmts) :
        stmts[i].op = "fun" =>
            /\ WellFormedTrace(BodyTrace(stmts[i]), DeclaresAny(stmts[i]))
            /\ WellFormedBodies(stmts[i].body)

\* C38 -- Type-stack well-formedness: every entry of every type stack the
\* checker goes through, at top level and in function bodies, for accepted and
\* for rejected programs, is STRING, BOOL, INT, FLOAT or an object tag, or ANY
\* in a body whose signature declares an `any` argument; 0 is never an entry.
C38_TypeStackWellFormed ==
    (mode = "batch" /\ pc # "lexed") =>
        /\ WellFormedTrace(TypeTrace(TypeStack_new, tokens.stmts), FALSE)
        /\ WellFormedTrace(ttrace, FALSE)
        /\ WellFormedBodies(tokens.stmts)

\* an accepted program with a function that declares `any` and whose body
\* holds ANY entries, and a call of a function without return type
C38_Witness ==
    /\ mode = "batch"
    /\ pc = "done"
    /\ outcome = "accepted"
    /\ statements = <<funa, funx, callx>>
    /\ \E i \in 1..Len(BodyTrace(funa)) : BodyTrace(funa)[i] = <<ANY, ANY>>
    /\ ttrace[4] = <<>>

-----------------------------------------------------------------------------
(* A bare zero (ZeroSpec).                                                  *)

\* C39 -- Lexing a bare zero loses no input: a text that opens with `0` and
\* then whitespace, a separator or an operator character lexes as the number
\* 0 followed by the tokens of the text after the `0`, so the separator or
\* operator after the `0` is a token of its own.
C39_BareZero ==
    (mode = "batch" /\ pc # "start" /\ tokenize(Tail(src)).ok) =>
        /\ tokens.lex
        /\ tokens.toks = <<NumberTok(0, 0, FALSE)>> \o tokenize(Tail(src)).toks

====
